---- MODULE Spec2Model ----
(***************************************************************************)
(* Verification model of algebratools: the expression engine (algexptools) *)
(* and the domain/set algebra (algsettools).                               *)
(*                                                                         *)
(* Conventions                                                             *)
(*  - A text is a sequence of one-character strings.                       *)
(*  - A number of the set algebra is an integer; Inf and -Inf stand for    *)
(*    the float limits of the unrestricted interval.                       *)
(*  - A failed operation yields an Err record carrying the Python          *)
(*    exception that leaves the call; a Python function that falls off its *)
(*    end yields NoneValue.                                                *)
(*  - The error-message table (ErrorMessages) only builds message texts    *)
(*    and is not modelled.                                                 *)
(***************************************************************************)
EXTENDS Integers, Sequences, FiniteSets, TLC

VARIABLES
    sop,        \* set algebra: the last operation called
    sargs,      \* set algebra: the arguments of the last call
    safter,     \* set algebra: the arguments as the last call left them
    sres,       \* set algebra: what the last call returned or raised
    cpc,        \* canonicalizer: how far the caller is
    ccls,       \* canonicalizer: the class whose _correction is called
    ctext,      \* canonicalizer: the text given
    cout,       \* canonicalizer: the corrected text
    cagain,     \* canonicalizer: the correction of the corrected text
    epc,        \* numeric expressions: how far the caller is
    etext,      \* numeric expressions: the text given to the parser
    etree,      \* numeric expressions: the expression parsed from the text
    evalue,     \* numeric expressions: the value of the expression
    eout,       \* numeric expressions: the text the expression is rendered to
    etree2,     \* numeric expressions: the expression parsed from that text
    evalue2,    \* numeric expressions: the value of that expression
    vpc,        \* variable expressions: how far the caller is
    vtext,      \* variable expressions: the text given to the constructor
    vdomains,   \* variable expressions: the variables_domains given
    vtree,      \* variable expressions: the expression the caller holds
    vbefore,    \* variable expressions: that expression before the last call
    vsub,       \* variable expressions: the variable and the number of the last call
    vres,       \* variable expressions: what the last call returned or raised
    vcalls,     \* variable expressions: the calls of substitute so far
    ipc,        \* polymorphic constructor: how far the caller is
    itext,      \* polymorphic constructor: the text given
    iclasses,   \* polymorphic constructor: the classes given, in their order
    ires,       \* polymorphic constructor: what the call returned or raised
    kpc,        \* interval classification: how far the caller is
    ktexts,     \* interval classification: the two intervals as generated texts
    kargs,      \* interval classification: the two intervals
    ktype,      \* interval classification: the type AlgSet gives
    kswapped,   \* interval classification: the type for the swapped intervals
    kreference, \* interval classification: the type get_intersection_type gives
    lpc,        \* correction loop: how far _correction is
    lcls,       \* correction loop: the class whose _correction runs
    ltext,      \* correction loop: the text given
    lexpression,    \* correction loop: the local expression
    loriginal,  \* correction loop: the local original_expression
    lpasses,    \* correction loop: the passes of the loop so far
    lout,       \* correction loop: the text returned
    dop,        \* discrete set: the last call of the caller
    darg,       \* discrete set: the argument of the last call
    dset,       \* discrete set: the set the caller keeps
    dres,       \* discrete set: what the last call returned or raised
    dsteps      \* discrete set: the calls on the set so far

setVars == <<sop, sargs, safter, sres>>
canonVars == <<cpc, ccls, ctext, cout, cagain>>
expVars == <<epc, etext, etree, evalue, eout, etree2, evalue2>>
varVars == <<vpc, vtext, vdomains, vtree, vbefore, vsub, vres, vcalls>>
initVars == <<ipc, itext, iclasses, ires>>
classifyVars == <<kpc, ktexts, kargs, ktype, kswapped, kreference>>
loopVars == <<lpc, lcls, ltext, lexpression, loriginal, lpasses, lout>>
discreteVars == <<dop, darg, dset, dres, dsteps>>

vars == <<setVars, canonVars, expVars, varVars, initVars, classifyVars, loopVars, discreteVars>>

\* what the calls of one part of the library leave alone
otherThanSet == <<canonVars, expVars, varVars, initVars, classifyVars, loopVars, discreteVars>>
otherThanCanon == <<setVars, expVars, varVars, initVars, classifyVars, loopVars, discreteVars>>
otherThanExp == <<setVars, canonVars, varVars, initVars, classifyVars, loopVars, discreteVars>>
otherThanVar == <<setVars, canonVars, expVars, initVars, classifyVars, loopVars, discreteVars>>
otherThanInit == <<setVars, canonVars, expVars, varVars, classifyVars, loopVars, discreteVars>>
otherThanClassify == <<setVars, canonVars, expVars, varVars, initVars, loopVars, discreteVars>>
otherThanLoop == <<setVars, canonVars, expVars, varVars, initVars, classifyVars, discreteVars>>
otherThanDiscrete == <<setVars, canonVars, expVars, varVars, initVars, classifyVars, loopVars>>

-----------------------------------------------------------------------------
(* Bounds of the model                                                     *)

MaxLimit == 3       \* interval limits and discrete numbers range over 0..MaxLimit
MaxDiscrete == 2    \* longest argument list of a DiscreteAlgSet call
MaxTokens == 5      \* longest text given to the canonicalizer, in tokens
MaxAtoms == 3       \* most numbers in a numeric text given to the parser
MaxVariableAtoms == 3   \* most variables and numbers in a variable text
MaxSubstitutions == 2   \* most pairs given to substitute on one expression
MaxLoopTokens == 4  \* longest text whose correction is followed pass by pass
MaxPasses == 6      \* most passes of the correction loop that are followed
MaxDiscreteSteps == 3    \* most calls on one discrete set
MaxMagnitude == 30000   \* largest numerator and denominator of a modelled value

Inf == 99           \* float("inf") as an integer above every modelled number

-----------------------------------------------------------------------------
(* Generic helpers                                                         *)

Err(e) == [kind |-> "Err", err |-> e]
IsErr(x) == x.kind = "Err"
NoneValue == [kind |-> "None"]

RECURSIVE SeqContains(_, _)
SeqContains(s, x) ==
    IF s = <<>> THEN FALSE
    ELSE IF Head(s) = x THEN TRUE ELSE SeqContains(Tail(s), x)

RemoveAt(s, i) == SubSeq(s, 1, i - 1) \o SubSeq(s, i + 1, Len(s))

SeqRange(s) == {s[i] : i \in 1..Len(s)}

-----------------------------------------------------------------------------
(* algsettools: the three kinds of sets                                    *)

\* DiscreteAlgSet._correct_content leaving every number given in the content
discrete_keep_content(set_content) == set_content

\* DiscreteAlgSet._correct_content: of two equal numbers the later one is
\* removed, the first occurrences keep their order.
RECURSIVE discrete_correct_content(_)
discrete_correct_content(set_content) ==
    IF set_content = <<>> THEN <<>>
    ELSE LET front == discrete_correct_content(SubSeq(set_content, 1, Len(set_content) - 1))
             last == set_content[Len(set_content)]
         IN IF SeqContains(front, last) THEN front ELSE Append(front, last)

\* DiscreteAlgSet(*args)
DiscreteAlgSet(numbers) == [kind |-> "D", content |-> discrete_correct_content(numbers)]

\* DiscreteAlgSet.is_empty / __bool__
is_empty(discrete) == discrete.content = <<>>

\* DiscreteAlgSet.__contains__
discrete_contains(discrete, number) == SeqContains(discrete.content, number)

\* DiscreteAlgSet.add
discrete_add(discrete, number) ==
    IF SeqContains(discrete.content, number) THEN discrete
    ELSE [discrete EXCEPT !.content = Append(@, number)]

\* IntervalAlgSet._correct_content without the comparison of the limits
IntervalAlgSet_unordered(lower_limit, upper_limit, is_left_closed, is_right_closed) ==
    IF lower_limit = upper_limit /\ ~(is_left_closed /\ is_right_closed)
         THEN Err("AssertionError")
    ELSE [kind |-> "I", lower_limit |-> lower_limit, upper_limit |-> upper_limit,
          is_left_closed |-> is_left_closed, is_right_closed |-> is_right_closed]

\* IntervalAlgSet._correct_content, reached from IntervalAlgSet.__init__ with
\* four arguments: the limits must be ordered, and equal limits need both
\* sides closed.
IntervalAlgSet(lower_limit, upper_limit, is_left_closed, is_right_closed) ==
    IF ~(lower_limit <= upper_limit) THEN Err("AssertionError")
    ELSE IF lower_limit = upper_limit /\ ~(is_left_closed /\ is_right_closed)
         THEN Err("AssertionError")
    ELSE [kind |-> "I", lower_limit |-> lower_limit, upper_limit |-> upper_limit,
          is_left_closed |-> is_left_closed, is_right_closed |-> is_right_closed]

\* IntervalAlgSet() without arguments: the open interval (-inf, inf)
DefaultInterval == IntervalAlgSet(-Inf, Inf, FALSE, FALSE)

\* IntervalAlgSet.is_one_number
is_one_number(interval) == interval.lower_limit = interval.upper_limit

\* IntervalAlgSet.add_lower_limit / add_upper_limit
add_lower_limit(interval) == [interval EXCEPT !.is_left_closed = TRUE]
add_upper_limit(interval) == [interval EXCEPT !.is_right_closed = TRUE]

\* IntervalAlgSet.__contains__ taking no number for a member of its limits
interval_contains_open(interval, item) ==
    interval.lower_limit < item /\ item < interval.upper_limit

\* IntervalAlgSet.__contains__
interval_contains(interval, item) ==
    IF interval.lower_limit < item /\ item < interval.upper_limit THEN TRUE
    ELSE IF interval.lower_limit = item /\ interval.is_left_closed THEN TRUE
    ELSE IF interval.upper_limit = item /\ interval.is_right_closed THEN TRUE
    ELSE FALSE

\* AlgSet._intersection_type taking two intervals that touch for ONE_NUMBER
\* whether the touching limits are closed or not
intersection_type_touching(interval1, interval2) ==
    LET l1 == interval1.lower_limit
        u1 == interval1.upper_limit
        l2 == interval2.lower_limit
        u2 == interval2.upper_limit
        l1_closed == interval1.is_left_closed
        u1_closed == interval1.is_right_closed
        l2_closed == interval2.is_left_closed
        u2_closed == interval2.is_right_closed
    IN  IF u1 < l2 \/ u2 < l1 THEN "EMPTY"
        ELSE IF u1 = l2 \/ u2 = l1 THEN "ONE_NUMBER"
        ELSE IF l1 = u1 \/ l2 = u2 THEN "ONE_NUMBER"
        ELSE IF (l1 < l2 /\ u1 > u2) \/ (l2 < l1 /\ u2 > u1) THEN "INNER_OVERLAP"
        ELSE IF (l1 < l2 /\ l2 < u1 /\ u1 < u2) \/ (l2 < l1 /\ l1 < u2 /\ u2 < u1)
             THEN "PARTIAL_OVERLAP"
        ELSE IF (l1 = l2 /\ u1 < u2) \/ (l2 = l1 /\ u2 < u1)
             THEN IF l1_closed /\ l2_closed THEN "INNER_LEFT_OVERLAP"
                  ELSE "INNER_LEFT_OVERLAP_WITHOUT_LOWER"
        ELSE IF l1 = l2 /\ u1 = u2
             THEN IF l1_closed /\ l2_closed
                  THEN IF u1_closed /\ u2_closed THEN "EQUALITY" ELSE "EQUALITY_WITHOUT_UPPER"
                  ELSE IF u1_closed /\ u2_closed THEN "EQUALITY_WITHOUT_LOWER"
                  ELSE "EQUALITY_WITHOUT_LIMITS"
        ELSE IF (l1 < l2 /\ u1 = u2) \/ (l2 < l1 /\ u2 = u1)
             THEN IF u1_closed /\ u2_closed THEN "INNER_RIGHT_OVERLAP"
                  ELSE "INNER_RIGHT_OVERLAP_WITHOUT_UPPER"
        ELSE "UNKNOWN_INTERSECTION"

\* a classification that knows the first interval as the one that starts
\* first or ends last, and nothing of the mirrored cases
intersection_type_first_leads(interval1, interval2) ==
    LET l1 == interval1.lower_limit
        u1 == interval1.upper_limit
        l2 == interval2.lower_limit
        u2 == interval2.upper_limit
        l1_closed == interval1.is_left_closed
        u1_closed == interval1.is_right_closed
        l2_closed == interval2.is_left_closed
        u2_closed == interval2.is_right_closed
    IN  IF u1 < l2 \/ u2 < l1 THEN "EMPTY"
        ELSE IF u1 = l2 \/ u2 = l1
             THEN IF u1 = l2 /\ u1_closed /\ l2_closed THEN "ONE_NUMBER" ELSE "EMPTY"
        ELSE IF l1 = u1 \/ l2 = u2 THEN "ONE_NUMBER"
        ELSE IF l1 < l2 /\ u1 > u2 THEN "INNER_OVERLAP"
        ELSE IF l1 < l2 /\ l2 < u1 /\ u1 < u2 THEN "PARTIAL_OVERLAP"
        ELSE IF l1 = l2 /\ u1 < u2
             THEN IF l1_closed /\ l2_closed THEN "INNER_LEFT_OVERLAP"
                  ELSE "INNER_LEFT_OVERLAP_WITHOUT_LOWER"
        ELSE IF l1 = l2 /\ u1 = u2
             THEN IF l1_closed /\ l2_closed
                  THEN IF u1_closed /\ u2_closed THEN "EQUALITY" ELSE "EQUALITY_WITHOUT_UPPER"
                  ELSE IF u1_closed /\ u2_closed THEN "EQUALITY_WITHOUT_LOWER"
                  ELSE "EQUALITY_WITHOUT_LIMITS"
        ELSE IF l1 < l2 /\ u1 = u2
             THEN IF u1_closed /\ u2_closed THEN "INNER_RIGHT_OVERLAP"
                  ELSE "INNER_RIGHT_OVERLAP_WITHOUT_UPPER"
        ELSE "UNKNOWN_INTERSECTION"

\* AlgSet._intersection_type
intersection_type(interval1, interval2) ==
    LET l1 == interval1.lower_limit
        u1 == interval1.upper_limit
        l2 == interval2.lower_limit
        u2 == interval2.upper_limit
        l1_closed == interval1.is_left_closed
        u1_closed == interval1.is_right_closed
        l2_closed == interval2.is_left_closed
        u2_closed == interval2.is_right_closed
    IN  IF u1 < l2 \/ u2 < l1 THEN "EMPTY"
        ELSE IF u1 = l2 \/ u2 = l1
             THEN IF (u1 = l2 /\ u1_closed /\ l2_closed) \/ (u2 = l1 /\ u2_closed /\ l1_closed)
                  THEN "ONE_NUMBER" ELSE "EMPTY"
        ELSE IF l1 = u1 \/ l2 = u2 THEN "ONE_NUMBER"
        ELSE IF (l1 < l2 /\ u1 > u2) \/ (l2 < l1 /\ u2 > u1) THEN "INNER_OVERLAP"
        ELSE IF (l1 < l2 /\ l2 < u1 /\ u1 < u2) \/ (l2 < l1 /\ l1 < u2 /\ u2 < u1)
             THEN "PARTIAL_OVERLAP"
        ELSE IF (l1 = l2 /\ u1 < u2) \/ (l2 = l1 /\ u2 < u1)
             THEN IF l1_closed /\ l2_closed THEN "INNER_LEFT_OVERLAP"
                  ELSE "INNER_LEFT_OVERLAP_WITHOUT_LOWER"
        ELSE IF l1 = l2 /\ u1 = u2
             THEN IF l1_closed /\ l2_closed
                  THEN IF u1_closed /\ u2_closed THEN "EQUALITY" ELSE "EQUALITY_WITHOUT_UPPER"
                  ELSE IF u1_closed /\ u2_closed THEN "EQUALITY_WITHOUT_LOWER"
                  ELSE "EQUALITY_WITHOUT_LIMITS"
        ELSE IF (l1 < l2 /\ u1 = u2) \/ (l2 < l1 /\ u2 = u1)
             THEN IF u1_closed /\ u2_closed THEN "INNER_RIGHT_OVERLAP"
                  ELSE "INNER_RIGHT_OVERLAP_WITHOUT_UPPER"
        ELSE "UNKNOWN_INTERSECTION"

\* AlgSet.__intersect_intervals: the branch taken for an intersection type
intersect_intervals_by_type(type, interval1, interval2) ==
    LET l1 == interval1.lower_limit
        u1 == interval1.upper_limit
        l2 == interval2.lower_limit
        u2 == interval2.upper_limit
        l1_closed == interval1.is_left_closed
        u1_closed == interval1.is_right_closed
        l2_closed == interval2.is_left_closed
        u2_closed == interval2.is_right_closed
    IN  CASE type = "EMPTY" -> DiscreteAlgSet(<<>>)
          [] type = "ONE_NUMBER" ->
                IF is_one_number(interval1) THEN DiscreteAlgSet(<<l1>>)
                ELSE IF is_one_number(interval2) THEN DiscreteAlgSet(<<l2>>)
                ELSE IF u1 = l2 THEN DiscreteAlgSet(<<u1>>)
                ELSE IF u2 = l1 THEN DiscreteAlgSet(<<l1>>)
                ELSE NoneValue
          [] type = "PARTIAL_OVERLAP" ->
                IF l1 < l2 /\ l2 < u1 /\ u1 < u2 THEN IntervalAlgSet(l2, u1, l2_closed, u1_closed)
                ELSE IF l2 < l1 /\ l1 < u2 /\ u2 < u1 THEN IntervalAlgSet(l1, u2, l1_closed, u2_closed)
                ELSE NoneValue
          [] type = "INNER_LEFT_OVERLAP_WITHOUT_LOWER" ->
                IF u1 < u2 THEN IntervalAlgSet(l1, u1, FALSE, u1_closed)
                ELSE IF u2 < u1 THEN IntervalAlgSet(l1, u2, FALSE, u2_closed)
                ELSE NoneValue
          [] type = "INNER_LEFT_OVERLAP" ->
                IF u1 < u2 THEN IntervalAlgSet(l1, u1, TRUE, u1_closed)
                ELSE IF u2 < u1 THEN IntervalAlgSet(l1, u2, TRUE, u2_closed)
                ELSE NoneValue
          [] type = "INNER_OVERLAP" ->
                IF l1 < l2 /\ u1 > u2 THEN IntervalAlgSet(l2, u2, l2_closed, u2_closed)
                ELSE IF l2 < l1 /\ u2 > u1 THEN IntervalAlgSet(l1, u1, l1_closed, u1_closed)
                ELSE NoneValue
          [] type = "EQUALITY_WITHOUT_LIMITS" -> IntervalAlgSet(l1, u1, FALSE, FALSE)
          [] type = "EQUALITY_WITHOUT_LOWER" -> IntervalAlgSet(l1, u1, FALSE, TRUE)
          [] type = "EQUALITY_WITHOUT_UPPER" -> IntervalAlgSet(l1, u1, TRUE, FALSE)
          [] type = "EQUALITY" -> IntervalAlgSet(l1, u1, TRUE, TRUE)
          [] type = "INNER_RIGHT_OVERLAP_WITHOUT_UPPER" ->
                IF l1 < l2 THEN IntervalAlgSet(l2, u1, l2_closed, FALSE)
                ELSE IF l2 < l1 THEN IntervalAlgSet(l1, u1, l1_closed, FALSE)
                ELSE NoneValue
          [] type = "INNER_RIGHT_OVERLAP" ->
                IF l1 < l2 THEN IntervalAlgSet(l2, u1, l2_closed, TRUE)
                ELSE IF l2 < l1 THEN IntervalAlgSet(l1, u1, l1_closed, TRUE)
                ELSE NoneValue
          [] OTHER -> Err("ValueError")

\* AlgSet.__intersect_intervals
intersect_intervals(interval1, interval2) ==
    intersect_intervals_by_type(intersection_type(interval1, interval2), interval1, interval2)

\* AlgSet._union_of_intersectioned_intervals: the branch taken for an
\* intersection type
union_by_type(type, interval1, interval2) ==
    LET l1 == interval1.lower_limit
        u1 == interval1.upper_limit
        l2 == interval2.lower_limit
        u2 == interval2.upper_limit
        l1_closed == interval1.is_left_closed
        u1_closed == interval1.is_right_closed
        l2_closed == interval2.is_left_closed
        u2_closed == interval2.is_right_closed
        l1_or_l2_closed == l1_closed \/ l2_closed
        u1_or_u2_closed == u1_closed \/ u2_closed
    IN  CASE type = "ONE_NUMBER" ->
                IF u1 = l2 THEN IntervalAlgSet(l1, u2, l1_closed, u2_closed)
                ELSE IF u2 = l1 THEN IntervalAlgSet(l2, u1, l2_closed, u1_closed)
                ELSE NoneValue
          [] type = "PARTIAL_OVERLAP" ->
                IF l1 < l2 /\ l2 < u1 /\ u1 < u2 THEN IntervalAlgSet(l1, u2, l1_closed, u2_closed)
                ELSE IF l2 < l1 /\ l1 < u2 /\ u2 < u1 THEN IntervalAlgSet(l2, u1, l2_closed, u1_closed)
                ELSE NoneValue
          [] type = "INNER_LEFT_OVERLAP_WITHOUT_LOWER" ->
                IF u1 < u2 THEN IntervalAlgSet(l1, u2, l1_or_l2_closed, u2_closed)
                ELSE IF u2 < u1 THEN IntervalAlgSet(l1, u1, l1_or_l2_closed, u1_closed)
                ELSE NoneValue
          [] type = "INNER_LEFT_OVERLAP" ->
                IF u1 < u2 THEN IntervalAlgSet(l1, u2, TRUE, u2_closed)
                ELSE IF u2 < u1 THEN IntervalAlgSet(l1, u1, TRUE, u1_closed)
                ELSE NoneValue
          [] type = "INNER_OVERLAP" ->
                IF l1 < l2 /\ u1 > u2 THEN IntervalAlgSet(l1, u1, l1_closed, u1_closed)
                ELSE IF l2 < l1 /\ u2 > u1 THEN IntervalAlgSet(l2, u2, l2_closed, u2_closed)
                ELSE NoneValue
          [] type = "EQUALITY_WITHOUT_LIMITS" -> IntervalAlgSet(l1, u1, l1_or_l2_closed, u1_or_u2_closed)
          [] type = "EQUALITY_WITHOUT_LOWER" -> IntervalAlgSet(l1, u1, l1_or_l2_closed, TRUE)
          [] type = "EQUALITY_WITHOUT_UPPER" -> IntervalAlgSet(l1, u1, TRUE, u1_or_u2_closed)
          [] type = "EQUALITY" -> IntervalAlgSet(l1, u1, TRUE, TRUE)
          [] type = "INNER_RIGHT_OVERLAP_WITHOUT_UPPER" ->
                IF l1 < l2 THEN IntervalAlgSet(l1, u1, l1_closed, u1_or_u2_closed)
                ELSE IF l2 < l1 THEN IntervalAlgSet(l2, u1, l2_closed, u1_or_u2_closed)
                ELSE NoneValue
          [] type = "INNER_RIGHT_OVERLAP" ->
                IF l1 < l2 THEN IntervalAlgSet(l1, u1, l1_closed, TRUE)
                ELSE IF l2 < l1 THEN IntervalAlgSet(l2, u1, l2_closed, TRUE)
                ELSE NoneValue
          [] OTHER -> Err("ValueError")

\* AlgSet._union_of_intersectioned_intervals
union_of_intersectioned_intervals(interval1, interval2) ==
    union_by_type(intersection_type(interval1, interval2), interval1, interval2)

-----------------------------------------------------------------------------
(* algsettools: normalisation of a UnionAlgSet content list                *)

IsDiscrete(x) == x.kind = "D"
IsInterval(x) == x.kind = "I"
IsUnion(x) == x.kind = "U"

RECURSIVE SelectKind(_, _)
SelectKind(alg_set, kind) ==
    IF alg_set = <<>> THEN <<>>
    ELSE IF Head(alg_set).kind = kind
         THEN <<Head(alg_set)>> \o SelectKind(Tail(alg_set), kind)
         ELSE SelectKind(Tail(alg_set), kind)

RECURSIVE RejectKind(_, _)
RejectKind(alg_set, kind) ==
    IF alg_set = <<>> THEN <<>>
    ELSE IF Head(alg_set).kind = kind
         THEN RejectKind(Tail(alg_set), kind)
         ELSE <<Head(alg_set)>> \o RejectKind(Tail(alg_set), kind)

\* AlgSet._union_discrete_sets: the longer set is copied and the numbers of
\* the shorter one are added to it (sorted() is stable, so of two sets of the
\* same length the first argument is the shorter one).
RECURSIVE AddAll(_, _)
AddAll(discrete, numbers) ==
    IF numbers = <<>> THEN discrete
    ELSE AddAll(discrete_add(discrete, Head(numbers)), Tail(numbers))

union_discrete_sets(discrete1, discrete2) ==
    LET smaller_discrete == IF Len(discrete1.content) <= Len(discrete2.content)
                            THEN discrete1 ELSE discrete2
        greater_discrete == IF Len(discrete1.content) <= Len(discrete2.content)
                            THEN discrete2 ELSE discrete1
    IN  AddAll(greater_discrete, smaller_discrete.content)

\* AlgSet._single_digit_intervals_to_discrete_sets
RECURSIVE OneNumberLimits(_)
OneNumberLimits(alg_set) ==
    IF alg_set = <<>> THEN <<>>
    ELSE IF IsInterval(Head(alg_set)) /\ is_one_number(Head(alg_set))
         THEN <<Head(alg_set).lower_limit>> \o OneNumberLimits(Tail(alg_set))
         ELSE OneNumberLimits(Tail(alg_set))

RECURSIVE WithoutOneNumberIntervals(_)
WithoutOneNumberIntervals(alg_set) ==
    IF alg_set = <<>> THEN <<>>
    ELSE IF IsInterval(Head(alg_set)) /\ is_one_number(Head(alg_set))
         THEN WithoutOneNumberIntervals(Tail(alg_set))
         ELSE <<Head(alg_set)>> \o WithoutOneNumberIntervals(Tail(alg_set))

single_digit_intervals_to_discrete_sets(alg_set) ==
    LET numbers == OneNumberLimits(alg_set)
    IN  IF numbers = <<>> THEN alg_set
        ELSE <<DiscreteAlgSet(numbers)>> \o WithoutOneNumberIntervals(alg_set)

\* UnionAlgSet.__simplify_discrete_sets_content
RECURSIVE UniteDiscretes(_, _)
UniteDiscretes(result_discrete, discretes) ==
    IF discretes = <<>> THEN result_discrete
    ELSE UniteDiscretes(union_discrete_sets(result_discrete, Head(discretes)), Tail(discretes))

simplify_discrete_sets_content(alg_set) ==
    LET result_discrete == UniteDiscretes(DiscreteAlgSet(<<>>), SelectKind(alg_set, "D"))
    IN  IF is_empty(result_discrete) THEN RejectKind(alg_set, "D")
        ELSE <<result_discrete>> \o RejectKind(alg_set, "D")

\* AlgSet._include_numbers_from_discrete_set_into_intervals
\* one interval against the numbers of the discrete set, in list order
RECURSIVE IncludeNumbers(_, _)
IncludeNumbers(inner_set, numbers) ==
    IF numbers = <<>> THEN inner_set
    ELSE LET number == Head(numbers)
             next == IF interval_contains(inner_set, number) THEN inner_set
                     ELSE IF number = inner_set.lower_limit THEN add_lower_limit(inner_set)
                     ELSE IF number = inner_set.upper_limit THEN add_upper_limit(inner_set)
                     ELSE inner_set
         IN IncludeNumbers(next, Tail(numbers))

\* the number is a member or a limit of one of the intervals of the list
IsIncluded(alg_set, number) ==
    \E k \in 1..Len(alg_set) :
        /\ IsInterval(alg_set[k])
        /\ \/ interval_contains(alg_set[k], number)
           \/ number = alg_set[k].lower_limit
           \/ number = alg_set[k].upper_limit

RECURSIVE KeepNotIncluded(_, _)
KeepNotIncluded(alg_set, numbers) ==
    IF numbers = <<>> THEN <<>>
    ELSE IF IsIncluded(alg_set, Head(numbers))
         THEN KeepNotIncluded(alg_set, Tail(numbers))
         ELSE <<Head(numbers)>> \o KeepNotIncluded(alg_set, Tail(numbers))

FirstDiscreteIndex(alg_set) ==
    IF \E k \in 1..Len(alg_set) : IsDiscrete(alg_set[k])
    THEN CHOOSE k \in 1..Len(alg_set) :
            IsDiscrete(alg_set[k]) /\ \A j \in 1..(k - 1) : ~IsDiscrete(alg_set[j])
    ELSE 0

\* a content whose discrete numbers are left beside the intervals as they are
include_numbers_skipped(alg_set) == alg_set

include_numbers_from_discrete_set_into_intervals(alg_set) ==
    LET d == FirstDiscreteIndex(alg_set)
    IN  IF d = 0 THEN alg_set
        ELSE IF is_empty(alg_set[d]) THEN alg_set
        ELSE LET numbers == alg_set[d].content
                 rest == KeepNotIncluded(alg_set, numbers)
                 closed == [k \in 1..Len(alg_set) |->
                              IF IsInterval(alg_set[k]) THEN IncludeNumbers(alg_set[k], numbers)
                              ELSE IF k = d THEN [alg_set[k] EXCEPT !.content = rest]
                              ELSE alg_set[k]]
             IN IF rest = <<>> THEN RemoveAt(closed, d) ELSE closed

\* UnionAlgSet.__unite_closed_limits: a left-closed interval contributes its
\* lower limit, otherwise a right-closed one contributes its upper limit.
RECURSIVE ClosedLimits(_)
ClosedLimits(alg_set) ==
    IF alg_set = <<>> THEN <<>>
    ELSE LET inner_set == Head(alg_set)
         IN IF IsInterval(inner_set) /\ inner_set.is_left_closed
            THEN <<inner_set.lower_limit>> \o ClosedLimits(Tail(alg_set))
            ELSE IF IsInterval(inner_set) /\ inner_set.is_right_closed
            THEN <<inner_set.upper_limit>> \o ClosedLimits(Tail(alg_set))
            ELSE ClosedLimits(Tail(alg_set))

unite_closed_limits(alg_set) ==
    LET closed_limits == ClosedLimits(alg_set)
    IN  [k \in 1..Len(alg_set) |->
            IF IsInterval(alg_set[k])
            THEN [alg_set[k] EXCEPT
                    !.is_left_closed = @ \/ SeqContains(closed_limits, alg_set[k].lower_limit),
                    !.is_right_closed = @ \/ SeqContains(closed_limits, alg_set[k].upper_limit)]
            ELSE alg_set[k]]

\* UnionAlgSet.__simplify_intervals_content: the first pair of intervals (in
\* index order) that is not classified EMPTY is replaced by its union, and the
\* search starts again.
NonEmptyPairs(alg_set, first_index) ==
    {p \in (first_index..Len(alg_set)) \X (first_index..Len(alg_set)) :
        /\ p[1] < p[2]
        /\ intersection_type(alg_set[p[1]], alg_set[p[2]]) # "EMPTY"}

FirstPair(pairs) ==
    CHOOSE p \in pairs :
        \A q \in pairs : p[1] < q[1] \/ (p[1] = q[1] /\ p[2] <= q[2])

RECURSIVE simplify_intervals_content(_)
simplify_intervals_content(alg_set) ==
    LET first_index == IF IsDiscrete(alg_set[1]) THEN 2 ELSE 1
        pairs == NonEmptyPairs(alg_set, first_index)
    IN  IF pairs = {} THEN alg_set
        ELSE LET p == FirstPair(pairs)
                 union_result == union_of_intersectioned_intervals(alg_set[p[1]], alg_set[p[2]])
             IN IF ~IsInterval(union_result) THEN <<Err("AttributeError")>>
                ELSE simplify_intervals_content(
                        SubSeq(alg_set, 1, p[1] - 1) \o <<union_result>>
                            \o SubSeq(alg_set, p[1] + 1, p[2] - 1)
                            \o SubSeq(alg_set, p[2] + 1, Len(alg_set)))

\* UnionAlgSet._correct_content, from its last step to its first: each step
\* takes the content list the step before left.
\* ... the last assertion and the finished object
union_of_content(set_content) ==
    IF IsErr(set_content[1]) THEN set_content[1]
    ELSE IF ~(Len(set_content) > 1) THEN Err("AssertionError")
    ELSE [kind |-> "U", content |-> set_content]

\* ... after the discrete sets are processed
correct_intervals(set_content) ==
    IF ~(Len(set_content) > 1) THEN Err("AssertionError")
    ELSE union_of_content(simplify_intervals_content(unite_closed_limits(set_content)))

\* ... after the discrete sets are united
correct_discrete_numbers(set_content) ==
    IF ~(Len(set_content) > 1) THEN Err("AssertionError")
    ELSE correct_intervals(include_numbers_from_discrete_set_into_intervals(set_content))

\* ... after the one-number intervals are turned into discrete sets
correct_discrete_sets(set_content) ==
    IF ~(\E k \in 1..Len(set_content) : IsInterval(set_content[k])) THEN Err("AssertionError")
    ELSE correct_discrete_numbers(simplify_discrete_sets_content(set_content))

\* UnionAlgSet(*args) on a list of discrete sets and intervals:
\* UnionAlgSet._init_check, then UnionAlgSet._correct_content
UnionAlgSet(args) ==
    IF ~(Len(args) > 1) THEN Err("AssertionError")
    ELSE correct_discrete_sets(single_digit_intervals_to_discrete_sets(args))

\* UnionAlgSet.discrete_set / UnionAlgSet.intervals
discrete_set(union_set) ==
    IF IsDiscrete(union_set.content[1]) THEN <<union_set.content[1]>> ELSE <<>>

intervals(union_set) ==
    IF IsDiscrete(union_set.content[1]) THEN Tail(union_set.content) ELSE union_set.content

-----------------------------------------------------------------------------
(* algsettools: pairwise union                                             *)

\* AlgSet.__union_discrete_interval
union_discrete_interval(discrete, interval_set) ==
    LET set_content == single_digit_intervals_to_discrete_sets(<<discrete, interval_set>>)
    IN  IF \A k \in 1..Len(set_content) : IsDiscrete(set_content[k])
        THEN union_discrete_sets(set_content[1], set_content[2])
        ELSE LET included == include_numbers_from_discrete_set_into_intervals(set_content)
             IN IF Len(included) = 1 THEN included[1]
                ELSE UnionAlgSet(included)

\* AlgSet.__min_max_from_intervals
min_from_intervals(ivs) ==
    LET k == CHOOSE k \in 1..Len(ivs) :
                /\ \A j \in 1..Len(ivs) : ivs[k].lower_limit <= ivs[j].lower_limit
                /\ \A j \in 1..(k - 1) : ivs[j].lower_limit # ivs[k].lower_limit
    IN  ivs[k]

max_from_intervals(ivs) ==
    LET k == CHOOSE k \in 1..Len(ivs) :
                /\ \A j \in 1..Len(ivs) : ivs[k].upper_limit >= ivs[j].upper_limit
                /\ \A j \in 1..(k - 1) : ivs[j].upper_limit # ivs[k].upper_limit
    IN  ivs[k]

\* AlgSet.__union_discrete_union: the assignment to union_set.discrete_set[0]
\* writes into the list the property has just built, so the union is returned
\* as it was copied.
union_discrete_union(discrete, union_set) ==
    IF discrete_set(union_set) # <<>> THEN union_set
    ELSE LET built == UnionAlgSet(<<discrete>> \o intervals(union_set))
         IN IF IsErr(built) /\ built.err = "AssertionError"
            THEN LET min_interval == min_from_intervals(intervals(union_set))
                     max_interval == max_from_intervals(intervals(union_set))
                 IN IntervalAlgSet(min_interval.lower_limit, max_interval.upper_limit,
                                   min_interval.is_left_closed, max_interval.is_right_closed)
            ELSE built

\* AlgSet.__union_intervals
union_intervals(interval1, interval2) ==
    IF intersection_type(interval1, interval2) = "EMPTY"
    THEN UnionAlgSet(<<interval1, interval2>>)
    ELSE union_of_intersectioned_intervals(interval1, interval2)

\* AlgSet.__union_interval_union
union_interval_union(interval_set, union_set) ==
    UnionAlgSet(union_set.content \o <<interval_set>>)

\* AlgSet.__union_unions
union_unions(union_set1, union_set2) ==
    UnionAlgSet(union_set1.content \o discrete_set(union_set2) \o intervals(union_set2))

\* AlgSet.__union: the table of methods by the pair of kinds
union_method(alg_set1, alg_set2) ==
    LET k1 == alg_set1.kind
        k2 == alg_set2.kind
    IN  CASE k1 = "D" /\ k2 = "D" -> union_discrete_sets(alg_set1, alg_set2)
          [] k1 = "D" /\ k2 = "I" -> union_discrete_interval(alg_set1, alg_set2)
          [] k1 = "D" /\ k2 = "U" -> union_discrete_union(alg_set1, alg_set2)
          [] k1 = "I" /\ k2 = "I" -> union_intervals(alg_set1, alg_set2)
          [] k1 = "I" /\ k2 = "U" -> union_interval_union(alg_set1, alg_set2)
          [] k1 = "U" /\ k2 = "U" -> union_unions(alg_set1, alg_set2)
          [] OTHER -> Err("KeyError")

\* the pairs of kinds that are keys of methods_for_type_combinations
type_combinations ==
    {<<"D", "D">>, <<"D", "I">>, <<"D", "U">>, <<"I", "I">>, <<"I", "U">>, <<"U", "U">>}

\* AlgSet.__union: a pair that is no key of the table is looked up swapped
union_pair(alg_set1, alg_set2) ==
    union_method(
        IF <<alg_set1.kind, alg_set2.kind>> \in type_combinations THEN alg_set1 ELSE alg_set2,
        IF <<alg_set1.kind, alg_set2.kind>> \in type_combinations THEN alg_set2 ELSE alg_set1)

\* AlgSet.union(*args): left-to-right fold; an exception ends the call
RECURSIVE UnionFold(_, _)
UnionFold(result_set, rest) ==
    IF rest = <<>> THEN result_set
    ELSE IF IsErr(result_set) THEN result_set
    ELSE UnionFold(union_pair(result_set, Head(rest)), Tail(rest))

union(args) ==
    IF ~(Len(args) >= 2) THEN Err("AssertionError")
    ELSE UnionFold(args[1], Tail(args))

-----------------------------------------------------------------------------
(* algsettools: pairwise intersection                                      *)

RECURSIVE KeepMembers(_, _)
KeepMembers(numbers, other) ==
    IF numbers = <<>> THEN <<>>
    ELSE LET keep == IF IsDiscrete(other) THEN discrete_contains(other, Head(numbers))
                     ELSE interval_contains(other, Head(numbers))
         IN IF keep THEN <<Head(numbers)>> \o KeepMembers(Tail(numbers), other)
            ELSE KeepMembers(Tail(numbers), other)

\* AlgSet.__intersect_discrete_sets
intersect_discrete_sets(discrete1, discrete2) ==
    LET smaller_discrete == IF Len(discrete1.content) <= Len(discrete2.content)
                            THEN discrete1 ELSE discrete2
        greater_discrete == IF Len(discrete1.content) <= Len(discrete2.content)
                            THEN discrete2 ELSE discrete1
    IN  [smaller_discrete EXCEPT !.content = KeepMembers(@, greater_discrete)]

\* AlgSet.__intersect_discrete_interval
intersect_discrete_interval(discrete, interval_set) ==
    [discrete EXCEPT !.content = KeepMembers(@, interval_set)]

\* AlgSet.__intersect_discrete_union
RECURSIVE DiscreteAgainstIntervals(_, _, _)
DiscreteAgainstIntervals(intersection_result, discrete, ivs) ==
    IF ivs = <<>> THEN intersection_result
    ELSE DiscreteAgainstIntervals(
            union_discrete_sets(intersection_result, intersect_discrete_interval(discrete, Head(ivs))),
            discrete, Tail(ivs))

intersect_discrete_union(discrete, union_set) ==
    LET start == IF discrete_set(union_set) # <<>>
                 THEN intersect_discrete_sets(discrete, discrete_set(union_set)[1])
                 ELSE DiscreteAlgSet(<<>>)
    IN  DiscreteAgainstIntervals(start, discrete, intervals(union_set))

\* AlgSet.__get_set_based_on_intersection_size
get_set_based_on_intersection_size(intersection_result) ==
    IF Len(intersection_result) = 1 THEN intersection_result[1]
    ELSE UnionAlgSet(intersection_result)

\* The loops of __intersect_interval_union and __intersect_unions over a list
\* of pairs of intervals: acc is <<discrete_result, intervals_result>>.
RECURSIVE IntersectPairs(_, _)
IntersectPairs(acc, pairs) ==
    IF pairs = <<>> THEN acc
    ELSE LET a == Head(pairs)[1]
             b == Head(pairs)[2]
         IN IF intersection_type(a, b) = "EMPTY" THEN IntersectPairs(acc, Tail(pairs))
            ELSE LET intervals_intersection == intersect_intervals(a, b)
                 IN IF IsDiscrete(intervals_intersection)
                    THEN IntersectPairs(<<union_discrete_sets(acc[1], intervals_intersection), acc[2]>>,
                                        Tail(pairs))
                    ELSE IntersectPairs(<<acc[1], Append(acc[2], intervals_intersection)>>, Tail(pairs))

Reassemble(acc) ==
    get_set_based_on_intersection_size(
        (IF is_empty(acc[1]) THEN <<>> ELSE <<acc[1]>>) \o acc[2])

\* AlgSet.__intersect_interval_union
intersect_interval_union(interval_set, union_set) ==
    LET discrete_result == IF discrete_set(union_set) # <<>>
                           THEN intersect_discrete_interval(discrete_set(union_set)[1], interval_set)
                           ELSE DiscreteAlgSet(<<>>)
        ivs == intervals(union_set)
        pairs == [k \in 1..Len(ivs) |-> <<ivs[k], interval_set>>]
    IN  Reassemble(IntersectPairs(<<discrete_result, <<>>>>, pairs))

\* AlgSet.__intersect_unions
intersect_unions(union_set1, union_set2) ==
    LET d0 == DiscreteAlgSet(<<>>)
        d1 == IF discrete_set(union_set1) # <<>>
              THEN union_discrete_sets(d0, intersect_discrete_union(discrete_set(union_set1)[1], union_set2))
              ELSE d0
        d2 == IF discrete_set(union_set2) # <<>>
              THEN union_discrete_sets(d1, intersect_discrete_union(discrete_set(union_set2)[1], union_set1))
              ELSE d1
        ivs1 == intervals(union_set1)
        ivs2 == intervals(union_set2)
        n2 == Len(ivs2)
        pairs == [k \in 1..(Len(ivs1) * n2) |->
                    <<ivs1[((k - 1) \div n2) + 1], ivs2[((k - 1) % n2) + 1]>>]
    IN  Reassemble(IntersectPairs(<<d2, <<>>>>, pairs))

\* AlgSet.__intersect: the table of methods by the pair of kinds
intersect_method(alg_set1, alg_set2) ==
    LET k1 == alg_set1.kind
        k2 == alg_set2.kind
    IN  CASE k1 = "D" /\ k2 = "D" -> intersect_discrete_sets(alg_set1, alg_set2)
          [] k1 = "D" /\ k2 = "I" -> intersect_discrete_interval(alg_set1, alg_set2)
          [] k1 = "D" /\ k2 = "U" -> intersect_discrete_union(alg_set1, alg_set2)
          [] k1 = "I" /\ k2 = "I" -> intersect_intervals(alg_set1, alg_set2)
          [] k1 = "I" /\ k2 = "U" -> intersect_interval_union(alg_set1, alg_set2)
          [] k1 = "U" /\ k2 = "U" -> intersect_unions(alg_set1, alg_set2)
          [] OTHER -> Err("KeyError")

\* AlgSet.__intersect: a pair that is no key of the table is looked up swapped
intersect_pair(alg_set1, alg_set2) ==
    intersect_method(
        IF <<alg_set1.kind, alg_set2.kind>> \in type_combinations THEN alg_set1 ELSE alg_set2,
        IF <<alg_set1.kind, alg_set2.kind>> \in type_combinations THEN alg_set2 ELSE alg_set1)

\* AlgSet.intersect(*args): left-to-right fold; an exception ends the call
RECURSIVE IntersectFold(_, _)
IntersectFold(result_set, rest) ==
    IF rest = <<>> THEN result_set
    ELSE IF IsErr(result_set) THEN result_set
    ELSE IntersectFold(intersect_pair(result_set, Head(rest)), Tail(rest))

intersect(args) ==
    IF ~(Len(args) >= 2) THEN Err("AssertionError")
    ELSE IntersectFold(args[1], Tail(args))

-----------------------------------------------------------------------------
(* algsettools: the arguments of a call as objects. A method is handed      *)
(* objects; what it writes into an object that is an argument of the call,  *)
(* or an inner set of an argument, is what the caller finds in the argument *)
(* after the call.                                                          *)

\* an object: the argument of the call it is (arg; 0 for an object made
\* during the call), the inner set of that argument it is (part; 0 for the
\* argument itself) and the set it holds
Object(arg, part, value) == [arg |-> arg, part |-> part, value |-> value]

Made(value) == Object(0, 0, value)

\* the same object under another name
deepcopy_alias(object) == object

\* copy.deepcopy: an object made during the call that holds what the given
\* object holds
deepcopy(object) == Made(object.value)

Values(objects) == [k \in DOMAIN objects |-> objects[k].value]

\* the objects a call is given, in the order of the call
ArgumentObjects(args) == [i \in DOMAIN args |-> Object(i, 0, args[i])]

\* UnionAlgSet.content: the inner sets of a UnionAlgSet are objects of their own
Parts(union_object) ==
    [k \in DOMAIN union_object.value.content |->
        Object(union_object.arg, IF union_object.arg = 0 THEN 0 ELSE k,
               union_object.value.content[k])]

\* the arguments after a write into the object
Written(args, object) ==
    IF object.arg = 0 THEN args
    ELSE IF object.part = 0 THEN [args EXCEPT ![object.arg] = object.value]
    ELSE [args EXCEPT ![object.arg].content[object.part] = object.value]

RECURSIVE WrittenAll(_, _)
WrittenAll(args, objects) ==
    IF objects = <<>> THEN args
    ELSE WrittenAll(Written(args, Head(objects)), Tail(objects))

IsDiscreteObject(object) == IsDiscrete(object.value)
IsIntervalObject(object) == IsInterval(object.value)
IsOneNumberObject(object) == IsInterval(object.value) /\ is_one_number(object.value)

\* AlgSet._union_discrete_sets: add() writes into the copy of the longer set
union_discrete_objects(args, object1, object2) ==
    LET greater_discrete == IF Len(object1.value.content) <= Len(object2.value.content)
                            THEN object2 ELSE object1
        union_discrete == [deepcopy(greater_discrete) EXCEPT
                              !.value = union_discrete_sets(object1.value, object2.value)]
    IN  [args |-> Written(args, union_discrete), result |-> union_discrete]

\* AlgSet._single_digit_intervals_to_discrete_sets: the list is rebuilt, no
\* object of it is written
single_digit_intervals_objects(objects) ==
    IF OneNumberLimits(Values(objects)) = <<>> THEN objects
    ELSE <<Made(DiscreteAlgSet(OneNumberLimits(Values(objects))))>>
            \o SelectSeq(objects, LAMBDA object : ~IsOneNumberObject(object))

\* UnionAlgSet.__simplify_discrete_sets_content
RECURSIVE UniteDiscreteObjects(_, _, _)
UniteDiscreteObjects(args, result_discrete, discretes) ==
    IF discretes = <<>> THEN [args |-> args, result |-> result_discrete]
    ELSE LET united == union_discrete_objects(args, result_discrete, Head(discretes))
         IN UniteDiscreteObjects(united.args, united.result, Tail(discretes))

SimplifiedWith(united, rest) ==
    [args |-> united.args,
     objects |-> IF is_empty(united.result.value) THEN rest ELSE <<united.result>> \o rest]

simplify_discrete_sets_objects(args, objects) ==
    SimplifiedWith(
        UniteDiscreteObjects(args, Made(DiscreteAlgSet(<<>>)),
                             SelectSeq(objects, IsDiscreteObject)),
        SelectSeq(objects, LAMBDA object : ~IsDiscreteObject(object)))

\* AlgSet._include_numbers_from_discrete_set_into_intervals, object by object:
\* what each object of the list holds when the loops are over (the discrete
\* set, emptied or not, is still in the list)
included_in_place(alg_set) ==
    IF FirstDiscreteIndex(alg_set) = 0 THEN alg_set
    ELSE IF is_empty(alg_set[FirstDiscreteIndex(alg_set)]) THEN alg_set
    ELSE [k \in 1..Len(alg_set) |->
            IF IsInterval(alg_set[k])
            THEN IncludeNumbers(alg_set[k], alg_set[FirstDiscreteIndex(alg_set)].content)
            ELSE IF k = FirstDiscreteIndex(alg_set)
            THEN [alg_set[k] EXCEPT
                    !.content = KeepNotIncluded(alg_set, alg_set[FirstDiscreteIndex(alg_set)].content)]
            ELSE alg_set[k]]

\* the objects of the list with what the in-place step wrote into them
Holding(objects, values) == [k \in DOMAIN objects |-> [objects[k] EXCEPT !.value = values[k]]]

\* ... and the list without the discrete set the step emptied
IncludedWith(args, objects, written) ==
    [args |-> WrittenAll(args, written),
     objects |-> IF Values(written) = Values(objects) THEN written
                 ELSE SelectSeq(written, LAMBDA object :
                                    ~(IsDiscreteObject(object) /\ is_empty(object.value)))]

include_numbers_objects(args, objects) ==
    IncludedWith(args, objects, Holding(objects, included_in_place(Values(objects))))

\* UnionAlgSet.__unite_closed_limits: add_lower_limit() and add_upper_limit()
\* write into the intervals of the list
unite_closed_limits_objects(args, objects) ==
    WrittenAll(args, Holding(objects, unite_closed_limits(Values(objects))))

\* UnionAlgSet._correct_content from its last step to its first, as in
\* correct_intervals .. correct_discrete_sets: the arguments after the steps
\* the assertions let run (__simplify_intervals_content puts new intervals
\* into the list and writes into none)
correct_intervals_objects(included) ==
    IF ~(Len(included.objects) > 1) THEN included.args
    ELSE unite_closed_limits_objects(included.args, included.objects)

correct_discrete_numbers_objects(simplified) ==
    IF ~(Len(simplified.objects) > 1) THEN simplified.args
    ELSE correct_intervals_objects(include_numbers_objects(simplified.args, simplified.objects))

correct_discrete_sets_objects(args, objects) ==
    IF ~(\E k \in 1..Len(objects) : IsIntervalObject(objects[k])) THEN args
    ELSE correct_discrete_numbers_objects(simplify_discrete_sets_objects(args, objects))

\* UnionAlgSet.__init__: the constructor works on deepcopy(args)
UnionAlgSet_objects(args, objects) ==
    [args |-> IF ~(Len(objects) > 1) THEN args
              ELSE correct_discrete_sets_objects(args,
                       single_digit_intervals_objects([k \in DOMAIN objects |-> deepcopy(objects[k])])),
     result |-> Made(UnionAlgSet(Values(objects)))]

\* AlgSet.__union_discrete_interval: the list that is worked on holds copies
\* of both arguments
union_discrete_interval_included(included) ==
    IF Len(included.objects) = 1
    THEN [args |-> included.args, result |-> Made(included.objects[1].value)]
    ELSE UnionAlgSet_objects(included.args, included.objects)

union_discrete_interval_content(args, set_content) ==
    IF \A k \in 1..Len(set_content) : IsDiscreteObject(set_content[k])
    THEN union_discrete_objects(args, set_content[1], set_content[2])
    ELSE union_discrete_interval_included(include_numbers_objects(args, set_content))

union_discrete_interval_objects(args, discrete, interval_set) ==
    union_discrete_interval_content(args,
        single_digit_intervals_objects(<<deepcopy(discrete), deepcopy(interval_set)>>))

\* AlgSet.__union_discrete_union: both arguments are copied first
union_discrete_union_copies(args, discrete, union_set) ==
    IF discrete_set(union_set.value) # <<>>
    THEN [args |-> union_discrete_objects(args, Parts(union_set)[1], discrete).args,
          result |-> union_set]
    ELSE [args |-> UnionAlgSet_objects(args, <<discrete>> \o Parts(union_set)).args,
          result |-> Made(union_discrete_union(discrete.value, union_set.value))]

union_discrete_union_objects(args, discrete, union_set) ==
    union_discrete_union_copies(args, deepcopy(discrete), deepcopy(union_set))

\* AlgSet.__union_intervals
union_intervals_objects(args, interval1, interval2) ==
    IF intersection_type(interval1.value, interval2.value) = "EMPTY"
    THEN UnionAlgSet_objects(args, <<interval1, interval2>>)
    ELSE [args |-> args,
          result |-> Made(union_of_intersectioned_intervals(interval1.value, interval2.value))]

\* AlgSet.__union_interval_union
union_interval_union_objects(args, interval_set, union_set) ==
    UnionAlgSet_objects(args, Parts(union_set) \o <<interval_set>>)

\* AlgSet.__union_unions
union_unions_objects(args, union_set1, union_set2) ==
    UnionAlgSet_objects(args, Parts(deepcopy(union_set1)) \o Parts(deepcopy(union_set2)))

\* AlgSet.__union on objects
union_method_objects(args, alg_set1, alg_set2) ==
    LET k1 == alg_set1.value.kind
        k2 == alg_set2.value.kind
    IN  CASE k1 = "D" /\ k2 = "D" -> union_discrete_objects(args, alg_set1, alg_set2)
          [] k1 = "D" /\ k2 = "I" -> union_discrete_interval_objects(args, alg_set1, alg_set2)
          [] k1 = "D" /\ k2 = "U" -> union_discrete_union_objects(args, alg_set1, alg_set2)
          [] k1 = "I" /\ k2 = "I" -> union_intervals_objects(args, alg_set1, alg_set2)
          [] k1 = "I" /\ k2 = "U" -> union_interval_union_objects(args, alg_set1, alg_set2)
          [] k1 = "U" /\ k2 = "U" -> union_unions_objects(args, alg_set1, alg_set2)
          [] OTHER -> [args |-> args, result |-> Made(Err("KeyError"))]

union_pair_objects(args, alg_set1, alg_set2) ==
    union_method_objects(args,
        IF <<alg_set1.value.kind, alg_set2.value.kind>> \in type_combinations
        THEN alg_set1 ELSE alg_set2,
        IF <<alg_set1.value.kind, alg_set2.value.kind>> \in type_combinations
        THEN alg_set2 ELSE alg_set1)

\* AlgSet.union(*args) on objects: the arguments as the call leaves them and
\* the object it returns
RECURSIVE UnionFoldObjects(_, _)
UnionFoldObjects(call, rest) ==
    IF rest = <<>> THEN call
    ELSE IF IsErr(call.result.value) THEN call
    ELSE UnionFoldObjects(union_pair_objects(call.args, call.result, Head(rest)), Tail(rest))

union_objects(args) ==
    IF ~(Len(args) >= 2) THEN [args |-> args, result |-> Made(Err("AssertionError"))]
    ELSE UnionFoldObjects([args |-> args, result |-> ArgumentObjects(args)[1]],
                          Tail(ArgumentObjects(args)))

\* AlgSet.__intersect_discrete_sets: remove() writes into the copy of the
\* shorter set
intersect_discrete_objects(args, object1, object2) ==
    LET smaller_discrete == IF Len(object1.value.content) <= Len(object2.value.content)
                            THEN object1 ELSE object2
        new_smaller == [deepcopy(smaller_discrete) EXCEPT
                           !.value = intersect_discrete_sets(object1.value, object2.value)]
    IN  [args |-> Written(args, new_smaller), result |-> new_smaller]

\* AlgSet.__intersect_discrete_interval: remove() writes into the copy of the
\* discrete set
intersect_discrete_interval_objects(args, discrete, interval_set) ==
    LET new_discrete == [deepcopy(discrete) EXCEPT
                            !.value = intersect_discrete_interval(discrete.value, interval_set.value)]
    IN  [args |-> Written(args, new_discrete), result |-> new_discrete]

\* UnionAlgSet.intervals as objects
IntervalParts(union_object) == SelectSeq(Parts(union_object), IsIntervalObject)

\* AlgSet.__intersect_discrete_union
RECURSIVE DiscreteAgainstIntervalObjects(_, _, _)
DiscreteAgainstIntervalObjects(call, discrete, ivs) ==
    IF ivs = <<>> THEN call
    ELSE LET new_intersection == intersect_discrete_interval_objects(call.args, discrete, Head(ivs))
         IN DiscreteAgainstIntervalObjects(
                union_discrete_objects(new_intersection.args, call.result, new_intersection.result),
                discrete, Tail(ivs))

intersect_discrete_union_objects(args, discrete, union_set) ==
    DiscreteAgainstIntervalObjects(
        IF discrete_set(union_set.value) # <<>>
        THEN intersect_discrete_objects(args, discrete, Parts(union_set)[1])
        ELSE [args |-> args, result |-> Made(DiscreteAlgSet(<<>>))],
        discrete, IntervalParts(union_set))

\* AlgSet.__intersect_intervals: the result is built from the limits
intersect_intervals_objects(args, interval1, interval2) ==
    [args |-> args, result |-> Made(intersect_intervals(interval1.value, interval2.value))]

\* AlgSet.__get_set_based_on_intersection_size: DiscreteAlgSet(other) and
\* IntervalAlgSet(other) build a new object from the given one
get_set_based_on_intersection_size_objects(args, intersection_result) ==
    [args |-> IF Len(intersection_result) = 1 THEN args
              ELSE UnionAlgSet_objects(args, intersection_result).args,
     result |-> Made(get_set_based_on_intersection_size(Values(intersection_result)))]

\* the loops of __intersect_interval_union and __intersect_unions, as in
\* IntersectPairs; acc holds the arguments, discrete_result and intervals_result
RECURSIVE IntersectPairObjects(_, _)
IntersectPairObjects(acc, pairs) ==
    IF pairs = <<>> THEN acc
    ELSE IF intersection_type(Head(pairs)[1].value, Head(pairs)[2].value) = "EMPTY"
    THEN IntersectPairObjects(acc, Tail(pairs))
    ELSE LET intervals_intersection ==
                 intersect_intervals_objects(acc.args, Head(pairs)[1], Head(pairs)[2]).result
             united == union_discrete_objects(acc.args, acc.discrete_result, intervals_intersection)
         IN IF IsDiscreteObject(intervals_intersection)
            THEN IntersectPairObjects(
                    [acc EXCEPT !.args = united.args, !.discrete_result = united.result], Tail(pairs))
            ELSE IntersectPairObjects(
                    [acc EXCEPT !.intervals_result = Append(@, intervals_intersection)], Tail(pairs))

ReassembleObjects(acc) ==
    get_set_based_on_intersection_size_objects(acc.args,
        (IF is_empty(acc.discrete_result.value) THEN <<>> ELSE <<acc.discrete_result>>)
            \o acc.intervals_result)

Accumulated(call) ==
    [args |-> call.args, discrete_result |-> call.result, intervals_result |-> <<>>]

\* AlgSet.__intersect_interval_union
intersect_interval_union_objects(args, interval_set, union_set) ==
    ReassembleObjects(IntersectPairObjects(
        Accumulated(IF discrete_set(union_set.value) # <<>>
                    THEN intersect_discrete_interval_objects(args, Parts(union_set)[1], interval_set)
                    ELSE [args |-> args, result |-> Made(DiscreteAlgSet(<<>>))]),
        [k \in 1..Len(IntervalParts(union_set)) |-> <<IntervalParts(union_set)[k], interval_set>>]))

\* AlgSet.__intersect_unions: the discrete set of one union against the other
\* union, added to discrete_result
DiscreteOfUnionObjects(call, union_set, other_union) ==
    IF discrete_set(union_set.value) = <<>> THEN call
    ELSE LET new_discrete == intersect_discrete_union_objects(call.args, Parts(union_set)[1], other_union)
         IN union_discrete_objects(new_discrete.args, call.result, new_discrete.result)

PairsOfIntervalParts(ivs1, ivs2) ==
    [k \in 1..(Len(ivs1) * Len(ivs2)) |->
        <<ivs1[((k - 1) \div Len(ivs2)) + 1], ivs2[((k - 1) % Len(ivs2)) + 1]>>]

intersect_unions_objects(args, union_set1, union_set2) ==
    ReassembleObjects(IntersectPairObjects(
        Accumulated(DiscreteOfUnionObjects(
            DiscreteOfUnionObjects([args |-> args, result |-> Made(DiscreteAlgSet(<<>>))],
                                   union_set1, union_set2),
            union_set2, union_set1)),
        PairsOfIntervalParts(IntervalParts(union_set1), IntervalParts(union_set2))))

\* AlgSet.__intersect on objects
intersect_method_objects(args, alg_set1, alg_set2) ==
    LET k1 == alg_set1.value.kind
        k2 == alg_set2.value.kind
    IN  CASE k1 = "D" /\ k2 = "D" -> intersect_discrete_objects(args, alg_set1, alg_set2)
          [] k1 = "D" /\ k2 = "I" -> intersect_discrete_interval_objects(args, alg_set1, alg_set2)
          [] k1 = "D" /\ k2 = "U" -> intersect_discrete_union_objects(args, alg_set1, alg_set2)
          [] k1 = "I" /\ k2 = "I" -> intersect_intervals_objects(args, alg_set1, alg_set2)
          [] k1 = "I" /\ k2 = "U" -> intersect_interval_union_objects(args, alg_set1, alg_set2)
          [] k1 = "U" /\ k2 = "U" -> intersect_unions_objects(args, alg_set1, alg_set2)
          [] OTHER -> [args |-> args, result |-> Made(Err("KeyError"))]

intersect_pair_objects(args, alg_set1, alg_set2) ==
    intersect_method_objects(args,
        IF <<alg_set1.value.kind, alg_set2.value.kind>> \in type_combinations
        THEN alg_set1 ELSE alg_set2,
        IF <<alg_set1.value.kind, alg_set2.value.kind>> \in type_combinations
        THEN alg_set2 ELSE alg_set1)

\* AlgSet.intersect(*args) on objects
RECURSIVE IntersectFoldObjects(_, _)
IntersectFoldObjects(call, rest) ==
    IF rest = <<>> THEN call
    ELSE IF IsErr(call.result.value) THEN call
    ELSE IntersectFoldObjects(intersect_pair_objects(call.args, call.result, Head(rest)), Tail(rest))

intersect_objects(args) ==
    IF ~(Len(args) >= 2) THEN [args |-> args, result |-> Made(Err("AssertionError"))]
    ELSE IntersectFoldObjects([args |-> args, result |-> ArgumentObjects(args)[1]],
                              Tail(ArgumentObjects(args)))

-----------------------------------------------------------------------------
(* The set algebra as a state machine: a caller constructs sets, intersects *)
(* and unites them, and may hold a UnionAlgSet it obtained to use it as the *)
(* first operand of a later call.                                           *)

Limits == 0..MaxLimit

Intervals ==
    {iv \in {IntervalAlgSet(l, u, lc, rc) : l \in Limits, u \in Limits,
                                             lc \in BOOLEAN, rc \in BOOLEAN} : IsInterval(iv)}
        \cup {DefaultInterval}

NumberLists == UNION {[1..n -> Limits] : n \in 0..MaxDiscrete}

Discretes == {DiscreteAlgSet(numbers) : numbers \in NumberLists}

BasicSets == Intervals \cup Discretes

IsSet(x) == x.kind \in {"D", "I", "U"}

Ready == sop \in {"init", "held"}

\* the sets a caller can pass as first operand
FirstOperands == IF sop = "held" THEN {sres} ELSE BasicSets

\* unions a caller has at hand as second operand
GivenUnions ==
    {UnionAlgSet(<<IntervalAlgSet(0, 1, FALSE, FALSE), IntervalAlgSet(2, 3, FALSE, FALSE)>>),
     UnionAlgSet(<<DiscreteAlgSet(<<3>>), IntervalAlgSet(0, 1, TRUE, TRUE)>>),
     UnionAlgSet(<<IntervalAlgSet(0, 1, TRUE, FALSE), IntervalAlgSet(1, 2, FALSE, TRUE)>>)}

SetInit ==
    /\ sop = "init"
    /\ sargs = <<>>
    /\ safter = <<>>
    /\ sres = NoneValue

\* no text has been given to the canonicalizer
CanonInit ==
    /\ cpc = "idle"
    /\ ccls = "none"
    /\ ctext = <<>>
    /\ cout = <<>>
    /\ cagain = <<>>

\* no text has been given to the parser
ExpInit ==
    /\ epc = "idle"
    /\ etext = <<>>
    /\ etree = NoneValue
    /\ evalue = NoneValue
    /\ eout = <<>>
    /\ etree2 = NoneValue
    /\ evalue2 = NoneValue

\* no text has been given to the constructor of variable expressions
VarInit ==
    /\ vpc = "idle"
    /\ vtext = <<>>
    /\ vdomains = {}
    /\ vtree = NoneValue
    /\ vbefore = NoneValue
    /\ vsub = NoneValue
    /\ vres = NoneValue
    /\ vcalls = 0

\* AlgExp.initializer has not been called
InitializerInit ==
    /\ ipc = "idle"
    /\ itext = <<>>
    /\ iclasses = <<>>
    /\ ires = NoneValue

ClassifyInit ==
    /\ kpc = "idle"
    /\ ktexts = <<>>
    /\ kargs = <<>>
    /\ ktype = NoneValue
    /\ kswapped = NoneValue
    /\ kreference = NoneValue

LoopInit ==
    /\ lpc = "idle"
    /\ lcls = "none"
    /\ ltext = <<>>
    /\ lexpression = <<>>
    /\ loriginal = <<>>
    /\ lpasses = 0
    /\ lout = <<>>

\* no discrete set has been constructed
DiscreteInit ==
    /\ dop = "init"
    /\ darg = <<>>
    /\ dset = NoneValue
    /\ dres = NoneValue
    /\ dsteps = 0

\* the state before any call
Init ==
    /\ SetInit /\ CanonInit /\ ExpInit /\ VarInit /\ InitializerInit /\ ClassifyInit
    /\ LoopInit /\ DiscreteInit

\* IntervalAlgSet(lower_limit, upper_limit, is_left_closed, is_right_closed)
ConstructInterval ==
    /\ sop = "init"
    /\ \E l \in Limits, u \in Limits, lc \in BOOLEAN, rc \in BOOLEAN :
        /\ sargs' = <<[kind |-> "IntervalArgs", lower_limit |-> l, upper_limit |-> u,
                       is_left_closed |-> lc, is_right_closed |-> rc]>>
        /\ sres' = IntervalAlgSet(l, u, lc, rc)
    /\ safter' = sargs'
    /\ sop' = "IntervalAlgSet"
    /\ UNCHANGED otherThanSet

\* DiscreteAlgSet(*numbers)
ConstructDiscrete ==
    /\ sop = "init"
    /\ \E numbers \in NumberLists :
        /\ sargs' = <<[kind |-> "DiscreteArgs", numbers |-> numbers]>>
        /\ sres' = DiscreteAlgSet(numbers)
    /\ safter' = sargs'
    /\ sop' = "DiscreteAlgSet"
    /\ UNCHANGED otherThanSet

\* UnionAlgSet(*args)
ConstructUnion ==
    /\ sop = "init"
    /\ \E a \in BasicSets, b \in BasicSets :
        /\ sargs' = <<a, b>>
        /\ safter' = UnionAlgSet_objects(<<a, b>>, ArgumentObjects(<<a, b>>)).args
        /\ sres' = UnionAlgSet(<<a, b>>)
    /\ sop' = "UnionAlgSet"
    /\ UNCHANGED otherThanSet

\* AlgSet.intersect(a, b)
Intersect ==
    /\ Ready
    /\ \E a \in FirstOperands, b \in BasicSets :
        /\ sargs' = <<a, b>>
        /\ safter' = intersect_objects(<<a, b>>).args
        /\ sres' = intersect(<<a, b>>)
    /\ sop' = "intersect"
    /\ UNCHANGED otherThanSet

\* AlgSet.union(a, b)
Union ==
    /\ Ready
    /\ \E a \in FirstOperands, b \in BasicSets :
        /\ sargs' = <<a, b>>
        /\ safter' = union_objects(<<a, b>>).args
        /\ sres' = union(<<a, b>>)
    /\ sop' = "union"
    /\ UNCHANGED otherThanSet

\* AlgSet.intersect(a, u) with a union as second operand
IntersectWithUnion ==
    /\ Ready
    /\ \E a \in FirstOperands, u \in GivenUnions :
        /\ sargs' = <<a, u>>
        /\ safter' = intersect_objects(<<a, u>>).args
        /\ sres' = intersect(<<a, u>>)
    /\ sop' = "intersect"
    /\ UNCHANGED otherThanSet

\* AlgSet.union(a, u) with a union as second operand
UnionWithUnion ==
    /\ Ready
    /\ \E a \in FirstOperands, u \in GivenUnions :
        /\ sargs' = <<a, u>>
        /\ safter' = union_objects(<<a, u>>).args
        /\ sres' = union(<<a, u>>)
    /\ sop' = "union"
    /\ UNCHANGED otherThanSet

\* AlgSet.union(a, b, c)
UnionThree ==
    /\ sop = "init"
    /\ \E a \in BasicSets, b \in BasicSets, c \in BasicSets :
        /\ sargs' = <<a, b, c>>
        /\ safter' = union_objects(<<a, b, c>>).args
        /\ sres' = union(<<a, b, c>>)
    /\ sop' = "union"
    /\ UNCHANGED otherThanSet

\* the caller holds the UnionAlgSet it got
Hold ==
    /\ ~Ready
    /\ IsUnion(sres)
    /\ sop' = "held"
    /\ sargs' = <<>>
    /\ safter' = <<>>
    /\ sres' = sres
    /\ UNCHANGED otherThanSet

\* the caller drops what it got
Discard ==
    /\ ~Ready
    /\ sop' = "init"
    /\ sargs' = <<>>
    /\ safter' = <<>>
    /\ sres' = NoneValue
    /\ UNCHANGED otherThanSet

SetNext ==
    \/ ConstructInterval
    \/ ConstructDiscrete
    \/ ConstructUnion
    \/ Intersect
    \/ Union
    \/ IntersectWithUnion
    \/ UnionWithUnion
    \/ UnionThree
    \/ Hold
    \/ Discard

SpecSet == Init /\ [][SetNext]_vars

-----------------------------------------------------------------------------
(* Properties of the set algebra                                            *)

\* The real numbers are sampled at every limit and between every two
\* neighbouring limits, below the least and above the greatest: a test point
\* q stands for the number q/2.
TestPoints == (-1)..(2 * MaxLimit + 1)

RECURSIVE MemberAt(_, _)
MemberAt(alg_set, q) ==
    CASE IsDiscrete(alg_set) -> \E i \in 1..Len(alg_set.content) : 2 * alg_set.content[i] = q
      [] IsInterval(alg_set) ->
            \/ 2 * alg_set.lower_limit < q /\ q < 2 * alg_set.upper_limit
            \/ 2 * alg_set.lower_limit = q /\ alg_set.is_left_closed
            \/ 2 * alg_set.upper_limit = q /\ alg_set.is_right_closed
      [] IsUnion(alg_set) -> \E i \in 1..Len(alg_set.content) : MemberAt(alg_set.content[i], q)
      [] OTHER -> FALSE

\* the test points that belong to one of the arguments at least
MembersOfArgs == {q \in TestPoints : \E i \in 1..Len(sargs) : MemberAt(sargs[i], q)}

\* the intervals an object consists of
IntervalsOf(x) ==
    IF IsInterval(x) THEN {x}
    ELSE IF IsUnion(x) THEN {x.content[i] : i \in {j \in 1..Len(x.content) : IsInterval(x.content[j])}}
    ELSE {}

\* C5: the intersection of two intervals holds exactly the numbers that
\* belong to both of them; it is the empty discrete set when there is none,
\* a discrete set of one number when there is exactly one, and an interval
\* otherwise; intersect((0,5], [5,10)) is Discrete{5}.
C5_IntersectionOfIntervalsIsExact ==
    /\ intersect(<<IntervalAlgSet(0, 5, FALSE, TRUE), IntervalAlgSet(5, 10, TRUE, FALSE)>>)
            = DiscreteAlgSet(<<5>>)
    /\ (sop = "intersect" /\ IsInterval(sargs[1]) /\ IsInterval(sargs[2])) =>
        /\ IsDiscrete(sres) \/ IsInterval(sres)
        /\ IsDiscrete(sres) => Len(sres.content) <= 1
        /\ IsInterval(sres) => sres.lower_limit < sres.upper_limit
        /\ \A q \in TestPoints :
                MemberAt(sres, q) <=> (MemberAt(sargs[1], q) /\ MemberAt(sargs[2], q))

\* two intervals that share exactly one closed limit were intersected
C5_Witness ==
    /\ sop = "intersect"
    /\ IsInterval(sargs[1]) /\ IsInterval(sargs[2])
    /\ sargs[1].lower_limit < sargs[1].upper_limit
    /\ sargs[1].upper_limit = sargs[2].lower_limit
    /\ sargs[2].lower_limit < sargs[2].upper_limit
    /\ sargs[1].is_right_closed /\ sargs[2].is_left_closed
    /\ sres = DiscreteAlgSet(<<sargs[1].upper_limit>>)

\* C6: the union of two intervals whose intersection type is not EMPTY is
\* one interval that holds exactly the numbers of the two, also when one of
\* them is a single number strictly inside the other.
C6_UnionOfMeetingIntervalsIsOneInterval ==
    (/\ sop = "union" /\ Len(sargs) = 2
     /\ IsInterval(sargs[1]) /\ IsInterval(sargs[2])
     /\ intersection_type(sargs[1], sargs[2]) # "EMPTY") =>
        /\ IsInterval(sres)
        /\ \A q \in TestPoints :
                MemberAt(sres, q) <=> (MemberAt(sargs[1], q) \/ MemberAt(sargs[2], q))

\* C7: the union of Discrete{p}, the open interval (a, p) and the open
\* interval (p, b) is the open interval (a, b).
C7_DiscretePointBridgesOpenIntervals ==
    (/\ sop = "union" /\ Len(sargs) = 3
     /\ IsDiscrete(sargs[1]) /\ Len(sargs[1].content) = 1
     /\ IsInterval(sargs[2]) /\ IsInterval(sargs[3])
     /\ ~sargs[2].is_left_closed /\ ~sargs[2].is_right_closed
     /\ ~sargs[3].is_left_closed /\ ~sargs[3].is_right_closed
     /\ sargs[2].upper_limit = sargs[1].content[1]
     /\ sargs[3].lower_limit = sargs[1].content[1]) =>
        sres = IntervalAlgSet(sargs[2].lower_limit, sargs[3].upper_limit, FALSE, FALSE)

\* C8: constructing an interval fails when the lower limit is above the
\* upper limit or when the limits are equal and not both closed, and every
\* interval that exists has lower <= upper, with equality only when both
\* limits are closed.
C8_IntervalLimitsAreOrdered ==
    /\ sop = "IntervalAlgSet" =>
        LET a == sargs[1]
        IN  /\ a.lower_limit > a.upper_limit => sres = Err("AssertionError")
            /\ (a.lower_limit = a.upper_limit /\ ~(a.is_left_closed /\ a.is_right_closed))
                    => sres = Err("AssertionError")
            /\ (a.lower_limit = a.upper_limit /\ a.is_left_closed /\ a.is_right_closed)
                    => IsInterval(sres)
    /\ \A iv \in IntervalsOf(sres) \cup UNION {IntervalsOf(sargs[i]) : i \in 1..Len(sargs)} :
        /\ iv.lower_limit <= iv.upper_limit
        /\ iv.lower_limit = iv.upper_limit => (iv.is_left_closed /\ iv.is_right_closed)

\* a construction with the lower limit above the upper limit was refused
C8_Witness ==
    /\ sop = "IntervalAlgSet"
    /\ sargs[1].lower_limit > sargs[1].upper_limit
    /\ sres = Err("AssertionError")

\* C9: when the arguments of a UnionAlgSet construction or of a union are
\* intervals and unions that make up one interval of more than one number, the result is that interval and
\* no error.
C9_UnionOfOneIntervalIsThatInterval ==
    (/\ sop \in {"UnionAlgSet", "union"}
     /\ \A i \in 1..Len(sargs) : IsInterval(sargs[i]) \/ IsUnion(sargs[i])
     /\ \E q \in MembersOfArgs : q % 2 = 1
     /\ \A q1 \in MembersOfArgs, q2 \in MembersOfArgs :
            \A q \in TestPoints : (q1 < q /\ q < q2) => q \in MembersOfArgs) =>
        /\ IsInterval(sres)
        /\ \A q \in TestPoints : MemberAt(sres, q) <=> q \in MembersOfArgs

\* C16: intersect and union do not mutate their arguments: after the call
\* every argument holds the members, limits and open/closed flags it held
\* before the call.
C16_ArgumentsAreNotMutated ==
    sop \in {"intersect", "union"} => safter = sargs

\* the union of a discrete set and an interval open at the number of the set:
\* the number is absorbed and the limit closed in the result, and the
\* arguments are as they were
C16_Witness ==
    /\ sop = "union" /\ Len(sargs) = 2
    /\ IsDiscrete(sargs[1]) /\ IsInterval(sargs[2])
    /\ ~sargs[2].is_left_closed
    /\ sargs[1].content = <<sargs[2].lower_limit>>
    /\ IsInterval(sres) /\ sres.is_left_closed
    /\ safter = sargs

\* the call is an intersection of an interval and a union or of two unions
IntersectionWithUnion ==
    /\ sop = "intersect" /\ Len(sargs) = 2
    /\ IsInterval(sargs[1]) \/ IsUnion(sargs[1])
    /\ IsInterval(sargs[2]) \/ IsUnion(sargs[2])
    /\ IsUnion(sargs[1]) \/ IsUnion(sargs[2])

\* the points that are members of every argument
CommonMembers == {q \in TestPoints : \A i \in 1..Len(sargs) : MemberAt(sargs[i], q)}

\* C17: an intersection of an interval and a union, or of two unions, never
\* fails; it is the empty discrete set when the arguments have no common
\* member, one DiscreteAlgSet or IntervalAlgSet when one part results, and a
\* UnionAlgSet of two or more parts otherwise.
C17_IntersectionWithUnionIsReassembled ==
    IntersectionWithUnion =>
        /\ IsSet(sres)
        /\ CommonMembers = {} => sres = DiscreteAlgSet(<<>>)
        /\ IsUnion(sres) => Len(sres.content) >= 2

\* the union of a discrete set and a UnionAlgSet was called for
UnionOfDiscreteAndUnion ==
    /\ sop = "union" /\ Len(sargs) = 2
    /\ \/ IsDiscrete(sargs[1]) /\ IsUnion(sargs[2])
       \/ IsUnion(sargs[1]) /\ IsDiscrete(sargs[2])

\* C25: the union of a discrete set and a UnionAlgSet is a set to which every
\* number of the discrete set and every member of the UnionAlgSet belong,
\* whether the UnionAlgSet has a discrete part or not.
C25_UnionOfDiscreteAndUnionKeepsAllMembers ==
    UnionOfDiscreteAndUnion =>
        /\ IsSet(sres)
        /\ \A q \in MembersOfArgs : MemberAt(sres, q)

\* two intervals of a content that have a limit in common, closed in one of
\* them at least
ShareClosedLimit(interval1, interval2) ==
    /\ IsInterval(interval1) /\ IsInterval(interval2)
    /\ interval1.upper_limit = interval2.lower_limit
    /\ interval1.is_right_closed \/ interval2.is_left_closed

\* C26: UnionAlgSet closes every limit of an interval that is equal to a closed
\* limit of an interval of the content, also of one closed on both sides, so
\* that two intervals with a common limit that is closed in one of them become
\* one interval: no UnionAlgSet made from two such intervals keeps two
\* intervals apart at that limit.
C26_SharedClosedLimitUnitesIntervals ==
    /\ sop \in {"UnionAlgSet", "union"} /\ Len(sargs) = 2 /\ IsUnion(sres) =>
        /\ ~ShareClosedLimit(sargs[1], sargs[2])
        /\ ~ShareClosedLimit(sargs[2], sargs[1])
    /\ sop \in {"UnionAlgSet", "union", "intersect"} /\ IsUnion(sres) =>
        \A k \in 1..Len(sres.content), j \in 1..Len(sres.content) :
            ~ShareClosedLimit(sres.content[k], sres.content[j])

\* the structure a UnionAlgSet is to have
IsWellFormedUnion(union_set) ==
    /\ Len(union_set.content) >= 2
    /\ \E k \in 1..Len(union_set.content) : IsInterval(union_set.content[k])
    /\ \A k \in 1..Len(union_set.content) :
            IsDiscrete(union_set.content[k]) =>
                k = 1 /\ union_set.content[k].content # <<>>
    /\ \A k \in 1..Len(union_set.content) :
            IsDiscrete(union_set.content[k]) \/ IsInterval(union_set.content[k])
    /\ \A k \in 1..Len(union_set.content) :
            IsInterval(union_set.content[k]) =>
                union_set.content[k].lower_limit # union_set.content[k].upper_limit
    /\ \A k \in 1..Len(union_set.content), j \in 1..Len(union_set.content) :
            IsDiscrete(union_set.content[k]) /\ IsInterval(union_set.content[j]) =>
                \A n \in 1..Len(union_set.content[k].content) :
                    /\ ~interval_contains(union_set.content[j], union_set.content[k].content[n])
                    /\ union_set.content[k].content[n] # union_set.content[j].lower_limit
                    /\ union_set.content[k].content[n] # union_set.content[j].upper_limit
    /\ \A k \in 1..Len(union_set.content), j \in 1..Len(union_set.content) :
            k # j /\ IsInterval(union_set.content[k]) /\ IsInterval(union_set.content[j]) =>
                intersection_type(union_set.content[k], union_set.content[j]) = "EMPTY"

\* C24: every UnionAlgSet that a constructor call or an operation gives has at
\* least two parts and at least one interval, at most one discrete set, which
\* is then the first part and not empty, no interval of a single number, no
\* discrete number that is a member or a limit of one of its intervals, and
\* intervals that are classified EMPTY two by two.
C24_UnionIsWellFormed ==
    sop \in {"UnionAlgSet", "intersect", "union"} /\ IsUnion(sres) => IsWellFormedUnion(sres)

\* UnionAlgSet was given an interval and then a discrete set of two numbers,
\* one of them a member or a limit of the interval
C24_Witness ==
    /\ sop = "UnionAlgSet" /\ Len(sargs) = 2
    /\ IsInterval(sargs[1]) /\ IsDiscrete(sargs[2]) /\ Len(sargs[2].content) = 2
    /\ IsUnion(sres) /\ IsWellFormedUnion(sres)
    /\ IsDiscrete(sres.content[1]) /\ Len(sres.content[1].content) = 1

-----------------------------------------------------------------------------
(* algexptools: the text canonicalizer (AlgExp._correction)                 *)

Digits == {"0", "1", "2", "3", "4", "5", "6", "7", "8", "9"}

\* Patterns.ALLOWED_VAR_CHARS
Letters ==
    {"a", "b", "c", "d", "e", "f", "g", "h", "i", "j", "k", "l", "m",
     "n", "o", "p", "q", "r", "s", "t", "u", "v", "w", "x", "y", "z",
     "A", "B", "C", "D", "E", "F", "G", "H", "I", "J", "K", "L", "M",
     "N", "O", "P", "Q", "R", "S", "T", "U", "V", "W", "X", "Y", "Z"}

\* the characters \s matches, as far as texts of the model hold them
WhiteSpaces == {" "}

\* AlgebraData.OPERATORS, from the lowest priority to the highest; the ROOT
\* entry is a string of more than one character and equals no character
OPERATORS == <<"+", "-", "*", "/", "^">>

\* AlgebraData.SPECIAL_NUMERIC_STRINGS
INF_STRING == <<"i", "n", "f">>
NAN_STRING == <<"n", "a", "n">>

\* str.startswith
StartsWith(text, prefix) ==
    Len(prefix) <= Len(text) /\ SubSeq(text, 1, Len(prefix)) = prefix

\* substring in text
Occurs(text, part) ==
    \E i \in 1..(Len(text) - Len(part) + 1) : SubSeq(text, i, i + Len(part) - 1) = part

\* str.replace(old, new) for a non-empty old: every occurrence, from the
\* left, without overlaps
RECURSIVE Replace(_, _, _)
Replace(text, old, new) ==
    IF text = <<>> THEN <<>>
    ELSE IF StartsWith(text, old)
         THEN new \o Replace(SubSeq(text, Len(old) + 1, Len(text)), old, new)
         ELSE <<Head(text)>> \o Replace(Tail(text), old, new)

\* AlgExp._remove_white_spaces
RECURSIVE remove_white_spaces(_)
remove_white_spaces(expression) ==
    IF expression = <<>> THEN <<>>
    ELSE IF Head(expression) \in WhiteSpaces THEN remove_white_spaces(Tail(expression))
    ELSE <<Head(expression)>> \o remove_white_spaces(Tail(expression))

\* AlgExp._remove_redundant_pluses_minuses: the loop over the replace table
HasTwoSigns(expression) ==
    \E i \in 1..(Len(expression) - 1) :
        expression[i] \in {"-", "+"} /\ expression[i + 1] \in {"-", "+"}

RECURSIVE ReplaceRedundantSigns(_)
ReplaceRedundantSigns(expression) ==
    IF ~HasTwoSigns(expression) THEN expression
    ELSE ReplaceRedundantSigns(
            Replace(Replace(Replace(Replace(expression,
                <<"-", "-">>, <<"+">>), <<"-", "+">>, <<"-">>),
                <<"+", "-">>, <<"-">>), <<"+", "+">>, <<"+">>))

\* the end of _remove_redundant_pluses_minuses and of _replace_minuses: a
\* plus at the beginning and every plus after a left bracket are dropped
DropLeadingPluses(expression) ==
    Replace(IF StartsWith(expression, <<"+">>) THEN Tail(expression) ELSE expression,
            <<"(", "+">>, <<"(">>)

\* AlgExp._remove_redundant_pluses_minuses
remove_redundant_pluses_minuses(expression) ==
    DropLeadingPluses(ReplaceRedundantSigns(expression))

\* AlgExp._bracketing: the deep level of the i-th character
bracketing(expression, left_brackets, right_brackets) ==
    [i \in 1..Len(expression) |->
        Cardinality({j \in 1..i : expression[j] \in left_brackets})
            - Cardinality({j \in 1..i : expression[j] \in right_brackets})]

\* AlgExp._is_wrapped_in_brackets
is_wrapped_in_brackets(expression, left_br, right_br) ==
    /\ Len(expression) > 2
    /\ Cardinality({i \in 1..Len(expression) :
            bracketing(expression, {left_br}, {right_br})[i] = 0}) = 1

\* AlgExp._remove_outer_brackets
RECURSIVE remove_outer_brackets(_)
remove_outer_brackets(expression) ==
    IF is_wrapped_in_brackets(expression, "(", ")")
    THEN remove_outer_brackets(SubSeq(expression, 2, Len(expression) - 1))
    ELSE expression

\* CompositeAlgExp._add_multiply_operators: the fifteen combinations of two
\* characters that get a "*" between them
IsCombinationForMultiply(left, right) ==
    /\ left \in Digits \cup Letters \cup {")", "}"}
    /\ right \in Digits \cup Letters \cup {"(", "{"}
    /\ ~(left \in Digits /\ right \in Digits)

\* CompositeAlgExp._add_multiply_operators: the loop ends when no combination
\* is left, which is when every one of them has its "*"
RECURSIVE add_multiply_operators(_)
add_multiply_operators(expression) ==
    IF Len(expression) < 2 THEN expression
    ELSE IF IsCombinationForMultiply(expression[1], expression[2])
         THEN <<expression[1], "*">> \o add_multiply_operators(Tail(expression))
         ELSE <<expression[1]>> \o add_multiply_operators(Tail(expression))

\* CompositeAlgExp._replace_minuses: every minus but the one of a "(-1)" is
\* replaced with "+(-1)*"
RECURSIVE ReplaceAllowedMinuses(_)
ReplaceAllowedMinuses(expression) ==
    IF expression = <<>> THEN <<>>
    ELSE IF StartsWith(expression, <<"(", "-", "1", ")">>)
         THEN <<"(", "-", "1", ")">> \o ReplaceAllowedMinuses(SubSeq(expression, 5, Len(expression)))
    ELSE IF Head(expression) = "-"
         THEN <<"+", "(", "-", "1", ")", "*">> \o ReplaceAllowedMinuses(Tail(expression))
    ELSE <<Head(expression)>> \o ReplaceAllowedMinuses(Tail(expression))

\* a replacement of every minus, that of a "(-1)" too
replace_every_minus(expression) ==
    DropLeadingPluses(Replace(expression, <<"-">>, <<"+", "(", "-", "1", ")", "*">>))

\* CompositeAlgExp._replace_minuses with __indexes_of_minuses_for_replace
replace_minuses(expression) ==
    IF is_wrapped_in_brackets(expression, "{", "}") \/ expression = <<"-", "1">>
    THEN DropLeadingPluses(expression)
    ELSE DropLeadingPluses(ReplaceAllowedMinuses(expression))

\* AtomicAlgExp._remove_zeros
RECURSIVE RemoveLeadingZeros(_)
RemoveLeadingZeros(expression) ==
    IF Len(expression) >= 2 /\ expression[1] = "0" /\ expression[2] \in Digits
    THEN RemoveLeadingZeros(Tail(expression))
    ELSE expression

RECURSIVE RemoveZerosAfterMinus(_)
RemoveZerosAfterMinus(expression) ==
    IF Len(expression) >= 3 /\ expression[1] = "-" /\ expression[2] = "0" /\ expression[3] \in Digits
    THEN RemoveZerosAfterMinus(<<"-">> \o SubSeq(expression, 3, Len(expression)))
    ELSE expression

RECURSIVE RemoveTrailingZeros(_)
RemoveTrailingZeros(expression) ==
    IF /\ Len(expression) >= 2
       /\ expression[Len(expression)] = "0"
       /\ expression[Len(expression) - 1] \in Digits
       /\ Occurs(expression, <<".">>)
    THEN RemoveTrailingZeros(SubSeq(expression, 1, Len(expression) - 1))
    ELSE expression

remove_zeros(expression) ==
    RemoveTrailingZeros(RemoveZerosAfterMinus(RemoveLeadingZeros(expression)))

\* AlgExp.__substitute_special_numeric_string: one of the eight allowed
\* patterns is found. On the left of the special string is the beginning, a
\* character that is no letter, or the imaginary unit; on its right the end, a
\* character that is no letter, or the imaginary unit; the special string
\* alone matches no pattern.
FoundSpecialString(expression, special_string) ==
    \E k \in 1..(Len(expression) - Len(special_string) + 1) :
        /\ SubSeq(expression, k, k + Len(special_string) - 1) = special_string
        /\ k = 1 \/ expression[k - 1] \notin Letters \/ expression[k - 1] = "i"
        /\ \/ k + Len(special_string) - 1 = Len(expression)
           \/ expression[k + Len(special_string)] \notin Letters
           \/ expression[k + Len(special_string)] = "i"
        /\ ~(k = 1 /\ k + Len(special_string) - 1 = Len(expression))

\* str(index) for an index of one digit
DecimalDigit(index) == <<"0", "1", "2", "3", "4", "5", "6", "7", "8", "9">>[index + 1]

\* f"{Ad.SUBSTITUTION_CHARACTER}{index}"
subs_string(index) == <<"#", DecimalDigit(index)>>

\* the entry the special string gets in _special_numeric_strings_substitutions,
\* or the empty text when it gets none
special_subs(expression, special_string, index) ==
    IF FoundSpecialString(expression, special_string) THEN subs_string(index) ELSE <<>>

\* AlgExp.__substitute_special_numeric_string: when a pattern is found, every
\* occurrence of the special string is replaced (re.subn)
substitute_special_numeric_string(expression, special_string, index) ==
    IF FoundSpecialString(expression, special_string)
    THEN Replace(expression, special_string, <<"(">> \o subs_string(index) \o <<")">>)
    ELSE expression

\* AlgExp._substitute_all_special_numeric_strings(reverse=True), one entry
reverse_special_subs(expression, subs, special_string) ==
    IF subs = <<>> THEN expression
    ELSE Replace(expression, <<"(">> \o subs \o <<")">>, special_string)

\* the classes of expressions
NUMERIC_ATOMIC == "NumericAtomicAlgExp"
NUMERIC_COMPOSITE == "NumericCompositeAlgExp"
VARIABLE_ATOMIC == "VariableAtomicAlgExp"
VARIABLE_COMPOSITE == "VariableCompositeAlgExp"

\* one pass of "for method in self._correction_methods": the three methods
\* of AlgExp.__init__, then the methods of the class
correction_methods(expression, cls) ==
    IF cls = NUMERIC_ATOMIC
    THEN remove_zeros(remove_outer_brackets(remove_redundant_pluses_minuses(
            remove_white_spaces(expression))))
    ELSE IF cls = VARIABLE_ATOMIC
    THEN remove_outer_brackets(remove_redundant_pluses_minuses(remove_white_spaces(expression)))
    ELSE replace_minuses(add_multiply_operators(remove_outer_brackets(
            remove_redundant_pluses_minuses(remove_white_spaces(expression)))))

\* AlgExp._correction: the while loop, which ends when a pass changes nothing
RECURSIVE correction_loop(_, _)
correction_loop(expression, cls) ==
    IF correction_methods(expression, cls) = expression THEN expression
    ELSE correction_loop(correction_methods(expression, cls), cls)

\* AlgExp._correction from the substitution of "nan" on
AlgExp_correction_nan(expression, cls, inf_subs, nan_index) ==
    reverse_special_subs(
        reverse_special_subs(
            correction_loop(substitute_special_numeric_string(expression, NAN_STRING, nan_index), cls),
            inf_subs, INF_STRING),
        special_subs(expression, NAN_STRING, nan_index), NAN_STRING)

\* AlgExp._correction, with the value _substitution_index has at the call
AlgExp_correction(expression, cls, index) ==
    AlgExp_correction_nan(
        substitute_special_numeric_string(expression, INF_STRING, index), cls,
        special_subs(expression, INF_STRING, index),
        IF FoundSpecialString(expression, INF_STRING) THEN index + 1 ELSE index)

\* VariableAlgExp.__get_immutable_content_areas: the areas as pairs of the
\* first and the last position of a content
RECURSIVE ImmutableAreas(_, _, _, _)
ImmutableAreas(levels, i, is_deep_level, start_index) ==
    IF i > Len(levels) THEN <<>>
    ELSE IF levels[i] = 1 /\ ~is_deep_level THEN ImmutableAreas(levels, i + 1, TRUE, i + 1)
    ELSE IF levels[i] = 0 /\ is_deep_level
         THEN (IF start_index <= i - 1 THEN <<<<start_index, i - 1>>>> ELSE <<>>)
                \o ImmutableAreas(levels, i + 1, FALSE, start_index)
    ELSE ImmutableAreas(levels, i + 1, is_deep_level, start_index)

get_immutable_content_areas(expression) ==
    ImmutableAreas(bracketing(expression, {"{"}, {"}"}), 1, FALSE, 0)

\* VariableAlgExp.__found_and_get_immutable_contents: the different contents
\* in the order they are found; the k-th one gets the substitution "#k"
RECURSIVE ImmutableContents(_, _, _)
ImmutableContents(expression, areas, contents) ==
    IF areas = <<>> THEN contents
    ELSE ImmutableContents(expression, Tail(areas),
            IF SeqContains(contents, SubSeq(expression, Head(areas)[1], Head(areas)[2]))
            THEN contents
            ELSE Append(contents, SubSeq(expression, Head(areas)[1], Head(areas)[2])))

found_and_get_immutable_contents(expression) ==
    ImmutableContents(expression, get_immutable_content_areas(expression), <<>>)

\* VariableAlgExp.__substitute_immutable_areas, from the k-th content on
RECURSIVE substitute_immutable_areas(_, _, _, _)
substitute_immutable_areas(expression, immutable_contents, reverse, k) ==
    IF k > Len(immutable_contents) THEN expression
    ELSE substitute_immutable_areas(
            IF reverse
            THEN Replace(expression, <<"{">> \o subs_string(k) \o <<"}">>,
                         <<"{">> \o immutable_contents[k] \o <<"}">>)
            ELSE Replace(expression, <<"{">> \o immutable_contents[k] \o <<"}">>,
                         <<"{">> \o subs_string(k) \o <<"}">>),
            immutable_contents, reverse, k + 1)

\* VariableAlgExp._correction for the immutable contents found
VariableAlgExp_correction_with(expression, cls, immutable_contents) ==
    substitute_immutable_areas(
        AlgExp_correction(substitute_immutable_areas(expression, immutable_contents, FALSE, 1),
                          cls, Len(immutable_contents) + 1),
        immutable_contents, TRUE, 1)

\* VariableAlgExp._correction
VariableAlgExp_correction(expression, cls) ==
    VariableAlgExp_correction_with(expression, cls, found_and_get_immutable_contents(expression))

\* NumericAtomicAlgExp._substitute_all_special_numeric_strings: the first
\* special string the expression contains, and no other
numeric_atomic_special_string(expression) ==
    IF Occurs(expression, INF_STRING) THEN INF_STRING
    ELSE IF Occurs(expression, NAN_STRING) THEN NAN_STRING
    ELSE <<>>

\* AlgExp._correction of a NumericAtomicAlgExp whose special string is given:
\* it is replaced by the substitution without brackets and put back after
\* the loop
NumericAtomicAlgExp_correction_with(expression, special_string) ==
    IF special_string = <<>> THEN correction_loop(expression, NUMERIC_ATOMIC)
    ELSE Replace(correction_loop(Replace(expression, special_string, subs_string(1)),
                                 NUMERIC_ATOMIC),
                 subs_string(1), special_string)

NumericAtomicAlgExp_correction(expression) ==
    NumericAtomicAlgExp_correction_with(expression, numeric_atomic_special_string(expression))

\* self._correction(expression) of a new instance of the class
correction(expression, cls) ==
    IF cls \in {VARIABLE_ATOMIC, VARIABLE_COMPOSITE}
    THEN VariableAlgExp_correction(expression, cls)
    ELSE IF cls = NUMERIC_ATOMIC THEN NumericAtomicAlgExp_correction(expression)
    ELSE AlgExp_correction(expression, cls, 1)

-----------------------------------------------------------------------------
(* algexptools: the patterns and the numbers of the texts                  *)

RECURSIVE StripLeft(_, _)
StripLeft(text, characters) ==
    IF text # <<>> /\ Head(text) \in characters THEN StripLeft(Tail(text), characters)
    ELSE text

RECURSIVE StripRight(_, _)
StripRight(text, characters) ==
    IF text # <<>> /\ text[Len(text)] \in characters
    THEN StripRight(SubSeq(text, 1, Len(text) - 1), characters)
    ELSE text

\* what a text has between the left part "^\(*[\-\+]*" and the right part
\* "\)*$" of the patterns
PatternCore(text) == StripRight(StripLeft(StripLeft(text, {"("}), {"-", "+"}), {")"})

\* \d+
IsDigits(text) == text # <<>> /\ \A i \in 1..Len(text) : text[i] \in Digits

\* \d+\.\d+
IsFloatDigits(text) ==
    \E k \in 2..(Len(text) - 1) :
        /\ text[k] = "."
        /\ IsDigits(SubSeq(text, 1, k - 1))
        /\ IsDigits(SubSeq(text, k + 1, Len(text)))

\* re.search(Patterns.FLOAT_NUMBER, text)
FLOAT_NUMBER(text) == IsFloatDigits(PatternCore(text))

\* re.search(Patterns.INTEGER, text)
INTEGER(text) == IsDigits(PatternCore(text)) \/ PatternCore(text) = <<"i">>

\* re.search(Patterns.SPECIAL_NUMERIC_STRING, text)
SPECIAL_NUMERIC_STRING(text) == PatternCore(text) \in {INF_STRING, NAN_STRING}

\* re.search(Patterns.ALLOWED_NUMERIC_ATOMIC_CONTENT, text)
ALLOWED_NUMERIC_ATOMIC_CONTENT(text) ==
    FLOAT_NUMBER(text) \/ INTEGER(text) \/ SPECIAL_NUMERIC_STRING(text)

\* re.search(Patterns.ALLOWED_NUMERIC_COMPOSITE_CONTENT, text); the root
\* operator is no character of the modelled texts
ALLOWED_NUMERIC_COMPOSITE_CONTENT(text) ==
    /\ text # <<>>
    /\ \A k \in 1..Len(text) :
        text[k] \in {"(", ")", "+", "-", "*", "/", "^", ".", "i"} \cup Digits \cup WhiteSpaces

\* re.search(Patterns.RESTRICTED_NUMERIC_COMPOSITE_CONTENT, text): a special
\* string beside a letter that is not the imaginary unit
RESTRICTED_NUMERIC_COMPOSITE_CONTENT(text) ==
    \E k \in 1..(Len(text) - 2) :
        /\ SubSeq(text, k, k + 2) \in {INF_STRING, NAN_STRING}
        /\ \/ k > 1 /\ text[k - 1] \in Letters \ {"i"}
           \/ k + 3 <= Len(text) /\ text[k + 3] \in Letters \ {"i"}

\* str.count(character)
Count(text, character) == Cardinality({k \in 1..Len(text) : text[k] = character})

\* int(character)
DigitValue(character) == CHOOSE d \in 0..9 : DecimalDigit(d) = character

\* int(text) for a text of digits
RECURSIVE ParseNat(_)
ParseNat(text) ==
    IF text = <<>> THEN 0
    ELSE 10 * ParseNat(SubSeq(text, 1, Len(text) - 1)) + DigitValue(text[Len(text)])

\* str(n) for an integer n
RECURSIVE ShowNat(_)
ShowNat(n) ==
    IF n < 10 THEN <<DecimalDigit(n)>>
    ELSE ShowNat(n \div 10) \o <<DecimalDigit(n % 10)>>

ShowInt(n) == IF n < 0 THEN <<"-">> \o ShowNat(-n) ELSE ShowNat(n)

RECURSIVE GCD(_, _)
GCD(a, b) == IF b = 0 THEN a ELSE GCD(b, a % b)

Abs(n) == IF n < 0 THEN -n ELSE n

RECURSIVE Power(_, _)
Power(base, exponent) == IF exponent = 0 THEN 1 ELSE base * Power(base, exponent - 1)

\* float(text) accepts the text: digits, a point, digits, after at most one
\* minus (a corrected text has no plus in front)
IsPlainFloat(text) ==
    IsFloatDigits(text) \/ (StartsWith(text, <<"-">>) /\ IsFloatDigits(Tail(text)))

PointIndex(text) == CHOOSE k \in 1..Len(text) : text[k] = "."

\* the parts of str(float(text)): the minus, the digits before the point
\* without zeros in front, the digits after the point without zeros behind
FloatSign(text) == IF StartsWith(text, <<"-">>) THEN <<"-">> ELSE <<>>

FloatInt(text) ==
    RemoveLeadingZeros(StripLeft(SubSeq(text, 1, PointIndex(text) - 1), {"-"}))

RECURSIVE DropZerosBehind(_)
DropZerosBehind(digits) ==
    IF Len(digits) >= 2 /\ digits[Len(digits)] = "0"
    THEN DropZerosBehind(SubSeq(digits, 1, Len(digits) - 1))
    ELSE digits

FloatFrac(text) == DropZerosBehind(SubSeq(text, PointIndex(text) + 1, Len(text)))

-----------------------------------------------------------------------------
(* algexptools: numeric expressions. A NumericAtomicAlgExp is a record of  *)
(* kind "NA" whose content is a text, a NumericCompositeAlgExp a record of *)
(* kind "NC" with an operator and a content of expressions.                *)

NumericAtomic(content) == [kind |-> "NA", content |-> content]
NumericComposite(operator, content) ==
    [kind |-> "NC", operator |-> operator, content |-> content]

IsComposite(alg_exp) == alg_exp.kind \in {"NC", "VC"}

\* AlgExp.initializer(expression, NumericAtomicAlgExp, NumericCompositeAlgExp)
RECURSIVE initializer(_)

\* NumericAtomicAlgExp._create_content_from_float(float(text))
NumericAtomic_create_content_from_float(text) ==
    IF ~IsPlainFloat(text) THEN Err("ValueError")
    ELSE IF FloatFrac(text) # <<"0">> THEN Err("AssertionError")
    ELSE NumericAtomic(FloatSign(text) \o FloatInt(text))

\* NumericAtomicAlgExp._create_content_from_str after the correction
NumericAtomic_create_content(corrected_expression) ==
    IF ~ALLOWED_NUMERIC_ATOMIC_CONTENT(corrected_expression) THEN Err("AssertionError")
    ELSE IF FLOAT_NUMBER(corrected_expression)
         THEN NumericAtomic_create_content_from_float(corrected_expression)
    ELSE NumericAtomic(corrected_expression)

\* NumericAtomicAlgExp._init_check with AlgExp._init_check for a text
NumericAtomic_init_check(expression) ==
    /\ ALLOWED_NUMERIC_ATOMIC_CONTENT(remove_white_spaces(expression))
    /\ Count(expression, "(") = Count(expression, ")")

\* NumericAtomicAlgExp(expression) for a text
NumericAtomicAlgExp(expression) ==
    IF ~NumericAtomic_init_check(expression) THEN Err("AssertionError")
    ELSE NumericAtomic_create_content(correction(expression, NUMERIC_ATOMIC))

\* operators.index(operator)
OperatorIndex(operator) == CHOOSE k \in 1..Len(OPERATORS) : OPERATORS[k] = operator

\* split indexes that take no account of the brackets
split_indexes_any_depth(expression, operator) ==
    {k \in 1..Len(expression) : expression[k] = operator}

\* NumericCompositeAlgExp._alg_exp_structure: split_indexes[operator]
split_indexes(expression, operator) ==
    {k \in 1..Len(expression) :
        /\ bracketing(expression, {"("}, {")"})[k] = 0
        /\ expression[k] = operator}

\* the operator of the lowest priority that has split indexes, if any
RECURSIVE OperatorForSplit(_, _)
OperatorForSplit(expression, k) ==
    IF k > Len(OPERATORS) THEN ""
    ELSE IF split_indexes(expression, OPERATORS[k]) # {} THEN OPERATORS[k]
    ELSE OperatorForSplit(expression, k + 1)

\* the operator of the highest priority that has split indexes, if any
operator_for_split_highest(expression) ==
    IF \A k \in 1..Len(OPERATORS) : split_indexes(expression, OPERATORS[k]) = {} THEN ""
    ELSE OPERATORS[CHOOSE k \in 1..Len(OPERATORS) :
            /\ split_indexes(expression, OPERATORS[k]) # {}
            /\ \A j \in (k + 1)..Len(OPERATORS) : split_indexes(expression, OPERATORS[j]) = {}]

operator_for_split(expression) == OperatorForSplit(expression, 1)

\* expression[start_index:actual_index] for every split index and for the end
RECURSIVE SplitParts(_, _, _)
SplitParts(expression, indexes, start_index) ==
    IF \A k \in indexes : k < start_index
    THEN <<SubSeq(expression, start_index, Len(expression))>>
    ELSE <<SubSeq(expression, start_index,
                  (CHOOSE k \in indexes : k >= start_index
                        /\ \A j \in indexes : j >= start_index => k <= j) - 1)>>
         \o SplitParts(expression, indexes,
                       (CHOOSE k \in indexes : k >= start_index
                            /\ \A j \in indexes : j >= start_index => k <= j) + 1)

\* the inner expressions of the parts; the first part that is no expression
\* ends the construction with its exception
RECURSIVE InitializeParts(_, _)
InitializePartsWith(parts, expression_parts, inner_alg_exp) ==
    IF IsErr(inner_alg_exp) THEN inner_alg_exp
    ELSE InitializeParts(Tail(parts), Append(expression_parts, inner_alg_exp))

InitializeParts(parts, expression_parts) ==
    IF parts = <<>> THEN [kind |-> "Parts", expression_parts |-> expression_parts]
    ELSE InitializePartsWith(parts, expression_parts, initializer(Head(parts)))

AlgExpStructureWith(operator, initialized) ==
    IF IsErr(initialized) THEN initialized
    ELSE NumericComposite(operator, initialized.expression_parts)

AlgExpStructureFor(expression, operator) ==
    IF operator = "" THEN Err("ValueError")
    ELSE AlgExpStructureWith(operator,
            InitializeParts(SplitParts(expression, split_indexes(expression, operator), 1),
                            <<>>))

\* NumericCompositeAlgExp._alg_exp_structure
alg_exp_structure(expression) == AlgExpStructureFor(expression, operator_for_split(expression))

\* CompositeAlgExp._check_content: TRUE when ZeroDivisionError is raised
RECURSIVE DividesByZero(_)
DividesByZero(alg_exp) ==
    \E k \in 2..Len(alg_exp.content) :
        \/ /\ alg_exp.operator = "/"
           /\ ~IsComposite(alg_exp.content[k])
           /\ alg_exp.content[k].content = <<"0">>
        \/ /\ IsComposite(alg_exp.content[k])
           /\ DividesByZero(alg_exp.content[k])

\* a _check_content that raises nothing
check_content_absent(alg_exp) == alg_exp

check_content(alg_exp) ==
    IF IsErr(alg_exp) THEN alg_exp
    ELSE IF DividesByZero(alg_exp) THEN Err("ZeroDivisionError")
    ELSE alg_exp

\* str(Fraction(numerator, denominator)).split("/")
FractionTexts(numerator, denominator) ==
    IF denominator \div GCD(Abs(numerator), denominator) = 1
    THEN <<ShowInt(numerator \div GCD(Abs(numerator), denominator))>>
    ELSE <<ShowInt(numerator \div GCD(Abs(numerator), denominator)),
           ShowInt(denominator \div GCD(Abs(numerator), denominator))>>

\* [NumericAtomicAlgExp(number) for number in ...]
AtomsOfTexts(numbers) == [k \in DOMAIN numbers |-> NumericAtomicAlgExp(numbers[k])]

\* NumericCompositeAlgExp._create_content_from_float(float(text))
NumericComposite_create_content_from_float(text) ==
    IF ~IsPlainFloat(text) THEN Err("ValueError")
    ELSE NumericComposite("/",
            AtomsOfTexts(FractionTexts(
                (IF FloatSign(text) = <<>> THEN 1 ELSE -1)
                    * ParseNat(FloatInt(text) \o FloatFrac(text)),
                Power(10, Len(FloatFrac(text))))))

\* NumericCompositeAlgExp._create_content_from_str after the correction
NumericComposite_create_content(corrected_expression) ==
    IF FLOAT_NUMBER(corrected_expression)
    THEN NumericComposite_create_content_from_float(corrected_expression)
    ELSE check_content(alg_exp_structure(corrected_expression))

\* NumericCompositeAlgExp._init_check with AlgExp._init_check for a text
NumericComposite_init_check(expression) ==
    /\ ~RESTRICTED_NUMERIC_COMPOSITE_CONTENT(expression)
    /\ ALLOWED_NUMERIC_COMPOSITE_CONTENT(
            Replace(Replace(expression, INF_STRING, <<"i">>), NAN_STRING, <<"i">>))
    /\ ~INTEGER(remove_white_spaces(
            Replace(Replace(expression, INF_STRING, <<"i">>), NAN_STRING, <<"i">>)))
    /\ Count(expression, "(") = Count(expression, ")")

\* NumericCompositeAlgExp(expression) for a text
NumericCompositeAlgExp(expression) ==
    IF ~NumericComposite_init_check(expression) THEN Err("AssertionError")
    ELSE NumericComposite_create_content(correction(expression, NUMERIC_COMPOSITE))

\* the exceptions AlgExp.initializer goes on to the next class with
InitializerCatches(result) == IsErr(result) /\ result.err \in {"AlgExpError", "AssertionError"}

InitializerAfterComposite(composite) ==
    IF InitializerCatches(composite) THEN Err("AlgExpError") ELSE composite

InitializerAfterAtomic(expression, atomic) ==
    IF InitializerCatches(atomic)
    THEN InitializerAfterComposite(NumericCompositeAlgExp(expression))
    ELSE atomic

initializer(expression) == InitializerAfterAtomic(expression, NumericAtomicAlgExp(expression))

\* CompositeAlgExp.__str__ and AtomicAlgExp.__str__
RECURSIVE to_text(_)

\* what CompositeAlgExp.__str__ appends for one inner expression, before the
\* operator
InnerText(inner_alg_exp, operator) ==
    IF ~IsComposite(inner_alg_exp)
    THEN IF StartsWith(inner_alg_exp.content, <<"-">>)
         THEN <<"(">> \o to_text(inner_alg_exp) \o <<")">>
         ELSE to_text(inner_alg_exp)
    ELSE IF OperatorIndex(operator) > OperatorIndex(inner_alg_exp.operator)
         THEN <<"(">> \o to_text(inner_alg_exp) \o <<")">>
    ELSE IF operator = "/" /\ inner_alg_exp.operator = "/"
         THEN <<"(">> \o to_text(inner_alg_exp) \o <<")">>
    ELSE to_text(inner_alg_exp)

RECURSIVE composite_string_content(_, _)
composite_string_content(content, operator) ==
    IF content = <<>> THEN <<>>
    ELSE InnerText(Head(content), operator) \o <<operator>>
            \o composite_string_content(Tail(content), operator)

to_text(alg_exp) ==
    IF ~IsComposite(alg_exp) THEN alg_exp.content
    ELSE SubSeq(composite_string_content(alg_exp.content, alg_exp.operator), 1,
                Len(composite_string_content(alg_exp.content, alg_exp.operator)) - 1)

-----------------------------------------------------------------------------
(* algexptools: the value of a numeric expression. The complex numbers of  *)
(* the library are modelled by rational numbers in lowest terms; a value   *)
(* the model has no number for (an imaginary unit, inf, nan, a power with  *)
(* a fractional exponent, a number above MaxMagnitude) is Unrepresented.   *)
(* The rounding of floats is not modelled.                                 *)

Unrepresented == [kind |-> "Unrepresented"]

IsNumber(v) == v.kind = "Q"

Rational(num, den) ==
    IF Abs(num) \div GCD(Abs(num), Abs(den)) > MaxMagnitude
            \/ Abs(den) \div GCD(Abs(num), Abs(den)) > MaxMagnitude
    THEN Unrepresented
    ELSE [kind |-> "Q",
          num |-> (IF den < 0 THEN -num ELSE num) \div GCD(Abs(num), Abs(den)),
          den |-> Abs(den) \div GCD(Abs(num), Abs(den))]

Whole(n) == Rational(n, 1)

\* base ** exponent for a natural exponent, by multiplications
RECURSIVE PowerOf(_, _, _)
PowerOf(result, base, exponent) ==
    IF ~IsNumber(result) \/ exponent = 0 THEN result
    ELSE PowerOf(Rational(result.num * base.num, result.den * base.den), base, exponent - 1)

\* complex ** complex
Pow(base, exponent) ==
    IF exponent.den # 1 THEN Unrepresented
    ELSE IF exponent.num = 0 THEN Whole(1)
    ELSE IF base.num = 0
         THEN IF exponent.num < 0 THEN Err("ZeroDivisionError") ELSE Whole(0)
    ELSE IF base = Whole(1) THEN Whole(1)
    ELSE IF base = Whole(-1) THEN Whole(IF exponent.num % 2 = 0 THEN 1 ELSE -1)
    ELSE IF exponent.num < 0
         THEN PowerOf(Whole(1), Rational(base.den, base.num), -exponent.num)
    ELSE PowerOf(Whole(1), base, exponent.num)

\* NumericAtomicAlgExp.value: complex(content)
atomic_value(content) ==
    IF IsDigits(content) /\ Len(content) <= 4 THEN Whole(ParseNat(content))
    ELSE IF StartsWith(content, <<"-">>) /\ IsDigits(Tail(content)) /\ Len(content) <= 5
         THEN Whole(-ParseNat(Tail(content)))
    ELSE Unrepresented

\* NumericAlgExp.value
RECURSIVE value(_)

\* one round of a loop of NumericCompositeAlgExp.value: the value of the
\* inner expression is combined with the result so far
Combine(operator, result, inner_value) ==
    IF IsErr(result) THEN result
    ELSE IF IsErr(inner_value) THEN inner_value
    ELSE IF operator = "/" /\ inner_value = Whole(0) THEN Err("ZeroDivisionError")
    ELSE IF ~IsNumber(result) \/ ~IsNumber(inner_value) THEN Unrepresented
    ELSE IF operator = "+"
         THEN Rational(result.num * inner_value.den + inner_value.num * result.den,
                       result.den * inner_value.den)
    ELSE IF operator = "-"
         THEN Rational(result.num * inner_value.den - inner_value.num * result.den,
                       result.den * inner_value.den)
    ELSE IF operator = "*"
         THEN Rational(result.num * inner_value.num, result.den * inner_value.den)
    ELSE IF operator = "/"
         THEN Rational(result.num * inner_value.den, result.den * inner_value.num)
    ELSE Pow(inner_value, result)

RECURSIVE FoldValues(_, _, _)
FoldValues(operator, result, content) ==
    IF content = <<>> THEN result
    ELSE FoldValues(operator, Combine(operator, result, value(Head(content))), Tail(content))

Reverse(s) == [k \in 1..Len(s) |-> s[Len(s) + 1 - k]]

\* the loop of the case Ad.POWER over the inner expressions in their order
power_value_in_order(content) == FoldValues("^", Whole(1), content)

\* NumericCompositeAlgExp.value, case Ad.POWER: the loop over self._content[::-1]
power_value(content) == FoldValues("^", Whole(1), Reverse(content))

value(alg_exp) ==
    IF ~IsComposite(alg_exp) THEN atomic_value(alg_exp.content)
    ELSE IF alg_exp.operator = "+" THEN FoldValues("+", Whole(0), alg_exp.content)
    ELSE IF alg_exp.operator = "-"
         THEN FoldValues("-", value(Head(alg_exp.content)), Tail(alg_exp.content))
    ELSE IF alg_exp.operator = "*" THEN FoldValues("*", Whole(1), alg_exp.content)
    ELSE IF alg_exp.operator = "/"
         THEN FoldValues("/", value(Head(alg_exp.content)), Tail(alg_exp.content))
    ELSE IF alg_exp.operator = "^" THEN power_value(alg_exp.content)
    ELSE Err("ValueError")

-----------------------------------------------------------------------------
(* algexptools: variable expressions. A VariableAtomicAlgExp is a record   *)
(* of kind "VA" with a content and an id: Python compares and hashes these *)
(* instances by identity, and the id names the instance by the call that   *)
(* made it. A VariableCompositeAlgExp is a record of kind "VC"; its        *)
(* variables are a set (the order of the list comes from list(set(...)))   *)
(* and its variables_domains a function on instances. Variable domains     *)
(* are given as a set of pairs <<content, set>>; the empty set stands for  *)
(* an empty dict and for None, which are treated alike. The classes are    *)
(* tried by AlgExp.initializer(expression) in the order NumericAtomic,     *)
(* NumericComposite, VariableAtomic, VariableComposite.                    *)
(* The variables, the domains and the immutable contents a                 *)
(* VariableAtomicAlgExp keeps of itself are not modelled.                  *)

VariableAtomic(content, id) == [kind |-> "VA", content |-> content, id |-> id]
VariableComposite(operator, content, variables, variables_domains, immutable_contents) ==
    [kind |-> "VC", operator |-> operator, content |-> content, variables |-> variables,
     variables_domains |-> variables_domains, immutable_contents |-> immutable_contents]

IsVariableAlgExp(alg_exp) == alg_exp.kind \in {"VA", "VC"}

\* a truth value a method returns
Bool(b) == [kind |-> "Bool", value |-> b]

\* the instance AlgExp.initializer makes for the part at a path of the
\* top-level expression, and the instance _alg_exp_structure makes for a
\* variable of the expression at a path
PartInstance(path) == [made_for |-> "part", path |-> path]
VariablesInstance(path) == [made_for |-> "variables", path |-> path]

\* re.search(Patterns.ALLOWED_SIMPLE_VARIABLE_ATOMIC_CONTENT, text)
ALLOWED_SIMPLE_VARIABLE_ATOMIC_CONTENT(text) ==
    /\ Len(StripRight(StripLeft(text, {"("}), {")"})) = 1
    /\ StripRight(StripLeft(text, {"("}), {")"})[1] \in Letters \ {"i"}

\* re.search(Patterns.ALLOWED_VARIABLE_COMPOSITE_CONTENT, text); the root
\* operator is no character of the modelled texts
ALLOWED_VARIABLE_COMPOSITE_CONTENT(text) ==
    /\ text # <<>>
    /\ \A k \in 1..Len(text) :
        text[k] \in {"(", ")", "{", "}", "+", "-", "*", "/", "^", "."}
                        \cup Letters \cup Digits \cup WhiteSpaces

\* VariableAlgExp._replace_immutable_areas
replace_immutable_areas(expression) ==
    [k \in 1..Len(expression) |->
        IF \E area \in SeqRange(get_immutable_content_areas(expression)) :
                area[1] <= k /\ k <= area[2]
        THEN "#" ELSE expression[k]]

\* VariableAtomicAlgExp._init_check with VariableAlgExp._init_check and
\* AlgExp._init_check for a text
VariableAtomic_init_check(expression) ==
    /\ \/ Count(expression, "{") > 0
       \/ ALLOWED_SIMPLE_VARIABLE_ATOMIC_CONTENT(replace_immutable_areas(expression))
    /\ Count(expression, "{") = Count(expression, "}")
    /\ Count(expression, "(") = Count(expression, ")")

\* VariableAtomicAlgExp._create_content_from_str after the correction
VariableAtomic_create_content(corrected_expression, id) ==
    IF \/ is_wrapped_in_brackets(
            IF StartsWith(corrected_expression, <<"-", "{">>)
            THEN Tail(corrected_expression) ELSE corrected_expression, "{", "}")
       \/ ALLOWED_SIMPLE_VARIABLE_ATOMIC_CONTENT(
            IF StartsWith(corrected_expression, <<"-", "{">>)
            THEN Tail(corrected_expression) ELSE corrected_expression)
    THEN VariableAtomic(corrected_expression, id)
    ELSE Err("AssertionError")

\* VariableAtomicAlgExp(expression) for a text; id names the new instance
VariableAtomicAlgExp(expression, id) ==
    IF ~VariableAtomic_init_check(expression) THEN Err("AssertionError")
    ELSE VariableAtomic_create_content(correction(expression, VARIABLE_ATOMIC), id)

\* AlgExp.__contains__ of the atomic and the composite classes for a text
RECURSIVE contains(_, _)
contains(alg_exp, string_item) ==
    IF IsComposite(alg_exp)
    THEN \E k \in 1..Len(alg_exp.content) : contains(alg_exp.content[k], string_item)
    ELSE alg_exp.content = string_item

\* VariableAlgExp._found_and_get_all_variables_contents
RECURSIVE found_and_get_all_variables_contents(_)
found_and_get_all_variables_contents(pre_content) ==
    UNION {IF pre_content[k].kind = "VA" THEN {pre_content[k].content}
           ELSE IF pre_content[k].kind = "VC"
                THEN found_and_get_all_variables_contents(pre_content[k].content)
           ELSE {} : k \in 1..Len(pre_content)}

\* VariableAlgExp._variable_by_content
variable_by_content(variables, content) ==
    IF \E variable \in variables : variable.content = content
    THEN CHOOSE variable \in variables : variable.content = content
    ELSE NoneValue

\* VariableCompositeAlgExp.__refresh_variables
refresh_variables(alg_exp, variables) ==
    [alg_exp EXCEPT !.variables =
        {global_instance_variable \in variables :
            \E variable \in alg_exp.variables :
                variable.content = global_instance_variable.content}]

\* VariableCompositeAlgExp.__unify_same_variables leaving every inner
\* expression the instance it was made with
keep_own_variables(pre_content, variables) == pre_content

\* VariableCompositeAlgExp.__unify_same_variables: every atomic inner
\* expression becomes the instance of the top-level expression's variables
\* that has its content
RECURSIVE unify_same_variables(_, _)
unify_same_variables(pre_content, variables) ==
    [i \in 1..Len(pre_content) |->
        IF pre_content[i].kind = "VA"
        THEN variable_by_content(variables, pre_content[i].content)
        ELSE IF pre_content[i].kind = "VC"
             THEN refresh_variables(
                    [pre_content[i] EXCEPT !.content = unify_same_variables(@, variables)],
                    variables)
        ELSE pre_content[i]]

\* VariableAlgExp.__check_variables_domains: FALSE when the assertion fails
check_variables_domains(variables_domains) ==
    \A pair \in variables_domains :
        /\ IsSet(pair[2])
        /\ ~(IsDiscrete(pair[2]) /\ is_empty(pair[2]))

\* VariableAlgExp.__correct_variables_domains: the domains by instance, the
\* default domain for the variables that are given none
correct_variables_domains(variables, variables_domains) ==
    [variable \in variables |->
        IF \E pair \in variables_domains : pair[1] = variable.content
        THEN (CHOOSE pair \in variables_domains : pair[1] = variable.content)[2]
        ELSE DefaultInterval]

\* VariableAlgExp.__refresh_variables_domains for the content of alg_exp
RECURSIVE refresh_variables_domains(_, _, _)
refresh_variables_domains(content, variables, variables_domains) ==
    [i \in 1..Len(content) |->
        IF content[i].kind = "VC"
        THEN [content[i] EXCEPT
                !.content = refresh_variables_domains(@, variables, variables_domains),
                !.variables_domains =
                    [global_instance_variable \in
                        {variable \in variables : contains(content[i], variable.content)}
                     |-> variables_domains[global_instance_variable]]]
        ELSE content[i]]

\* VariableAlgExp.__create_variables_domains for the domains by instance
CreateVariablesDomainsWith(alg_exp, new_variables_domains) ==
    [alg_exp EXCEPT
        !.variables_domains = new_variables_domains,
        !.content = refresh_variables_domains(@, alg_exp.variables, new_variables_domains)]

\* VariableAlgExp.__create_variables_domains, after AlgExp.__init__
create_variables_domains(alg_exp, variables_domains) ==
    IF IsErr(alg_exp) THEN alg_exp
    ELSE IF ~check_variables_domains(variables_domains) THEN Err("AssertionError")
    ELSE CreateVariablesDomainsWith(alg_exp,
            correct_variables_domains(alg_exp.variables, variables_domains))

\* VariableCompositeAlgExp(expression, variables_domains) for a text; path
\* is the place of the expression in the top-level expression
RECURSIVE VariableCompositeAlgExp(_, _, _)

\* AlgExp.initializer(expression) with all the classes
AnyAfterVariableComposite(composite) ==
    IF InitializerCatches(composite) THEN Err("AlgExpError") ELSE composite

AnyAfterVariableAtomic(expression, path, atomic) ==
    IF InitializerCatches(atomic)
    THEN AnyAfterVariableComposite(VariableCompositeAlgExp(expression, {}, path))
    ELSE atomic

AnyAfterNumeric(expression, path, numeric) ==
    IF InitializerCatches(numeric)
    THEN AnyAfterVariableAtomic(expression, path,
            VariableAtomicAlgExp(expression, PartInstance(path)))
    ELSE numeric

any_initializer(expression, path) == AnyAfterNumeric(expression, path, initializer(expression))

\* the try block of VariableCompositeAlgExp._init_check:
\* AlgExp.initializer(expression, NumericAtomicAlgExp, NumericCompositeAlgExp,
\* VariableAtomicAlgExp) raising a ValueError
IsVariableExpWith(expression, numeric) ==
    IF ~IsErr(numeric) THEN Bool(FALSE)
    ELSE IF numeric.err = "AlgExpError"
         THEN Bool(IsErr(VariableAtomicAlgExp(expression, PartInstance(<<>>))))
    ELSE IF numeric.err = "ValueError" THEN Bool(TRUE)
    ELSE numeric

is_variable_exp(expression) == IsVariableExpWith(expression, initializer(expression))

\* VariableCompositeAlgExp._init_check with VariableAlgExp._init_check and
\* AlgExp._init_check for a text
VariableComposite_init_check(expression, is_variable) ==
    /\ \/ Count(expression, "{") > 0
       \/ ALLOWED_VARIABLE_COMPOSITE_CONTENT(replace_immutable_areas(expression))
    /\ is_variable
    /\ Count(expression, "{") = Count(expression, "}")
    /\ Count(expression, "(") = Count(expression, ")")

\* VariableCompositeAlgExp._alg_exp_structure: split_indexes[operator]
variable_split_indexes(expression, operator) ==
    {k \in 1..Len(expression) :
        /\ bracketing(expression, {"(", "{"}, {")", "}"})[k] = 0
        /\ expression[k] = operator}

RECURSIVE VariableOperatorForSplit(_, _)
VariableOperatorForSplit(expression, k) ==
    IF k > Len(OPERATORS) THEN ""
    ELSE IF variable_split_indexes(expression, OPERATORS[k]) # {} THEN OPERATORS[k]
    ELSE VariableOperatorForSplit(expression, k + 1)

\* the inner expressions of the parts; the first part that is no expression
\* ends the construction with its exception
RECURSIVE VariableParts(_, _, _)
VariablePartsWith(parts, expression_parts, path, inner_alg_exp) ==
    IF IsErr(inner_alg_exp) THEN inner_alg_exp
    ELSE VariableParts(Tail(parts), Append(expression_parts, inner_alg_exp), path)

VariableParts(parts, expression_parts, path) ==
    IF parts = <<>> THEN [kind |-> "Parts", expression_parts |-> expression_parts]
    ELSE VariablePartsWith(parts, expression_parts, path,
            any_initializer(Head(parts), Append(path, Len(expression_parts) + 1)))

\* self._variables = [VariableAtomicAlgExp(exp) for exp in variables_contents]
VariablesOf(expression_parts, path) ==
    {VariableAtomicAlgExp(variable_content, VariablesInstance(path)) :
        variable_content \in found_and_get_all_variables_contents(expression_parts)}

\* the end of _alg_exp_structure: stack_trace_top_level holds for the
\* expression the caller constructs, and for no inner expression
VariableStructureOf(operator, expression_parts, variables, path, immutable_contents) ==
    IF \E variable \in variables : IsErr(variable) THEN Err("AssertionError")
    ELSE VariableComposite(operator,
            IF path = <<>> THEN unify_same_variables(expression_parts, variables)
            ELSE expression_parts,
            variables, <<>>, immutable_contents)

VariableStructureWith(operator, initialized, path, immutable_contents) ==
    IF IsErr(initialized) THEN initialized
    ELSE IF ~\E k \in 1..Len(initialized.expression_parts) :
                IsVariableAlgExp(initialized.expression_parts[k])
         THEN Err("ValueError")
    ELSE VariableStructureOf(operator, initialized.expression_parts,
            VariablesOf(initialized.expression_parts, path), path, immutable_contents)

VariableStructureFor(expression, operator, path, immutable_contents) ==
    IF operator = "" THEN Err("ValueError")
    ELSE VariableStructureWith(operator,
            VariableParts(SplitParts(expression, variable_split_indexes(expression, operator), 1),
                          <<>>, path),
            path, immutable_contents)

\* VariableCompositeAlgExp._alg_exp_structure; immutable_contents are the
\* keys VariableAlgExp.__create_immutable_contents finds in the text given
variable_alg_exp_structure(expression, path, immutable_contents) ==
    VariableStructureFor(expression, VariableOperatorForSplit(expression, 1), path,
                         immutable_contents)

VariableCompositeChecked(expression, variables_domains, path, is_variable) ==
    IF IsErr(is_variable) THEN is_variable
    ELSE IF ~VariableComposite_init_check(expression, is_variable.value)
         THEN Err("AssertionError")
    ELSE create_variables_domains(
            variable_alg_exp_structure(correction(expression, VARIABLE_COMPOSITE), path,
                SeqRange(found_and_get_immutable_contents(expression))),
            variables_domains)

VariableCompositeAlgExp(expression, variables_domains, path) ==
    VariableCompositeChecked(expression, variables_domains, path, is_variable_exp(expression))

\* actual_class(expression) of AlgExp.initializer for a text
actual_class_instance(actual_class, expression) ==
    IF actual_class = NUMERIC_ATOMIC THEN NumericAtomicAlgExp(expression)
    ELSE IF actual_class = NUMERIC_COMPOSITE THEN NumericCompositeAlgExp(expression)
    ELSE IF actual_class = VARIABLE_ATOMIC
         THEN VariableAtomicAlgExp(expression, PartInstance(<<>>))
    ELSE VariableCompositeAlgExp(expression, {}, <<>>)

\* __all_subclasses(AlgExp) without the abstract classes
all_subclasses == <<NUMERIC_ATOMIC, NUMERIC_COMPOSITE, VARIABLE_ATOMIC, VARIABLE_COMPOSITE>>

\* the loop of AlgExp.initializer over classes_for_init
RECURSIVE initializer_loop(_, _)
InitializerLoopWith(expression, classes_for_init, instance) ==
    IF InitializerCatches(instance) THEN initializer_loop(expression, Tail(classes_for_init))
    ELSE instance

initializer_loop(expression, classes_for_init) ==
    IF classes_for_init = <<>> THEN Err("AlgExpError")
    ELSE InitializerLoopWith(expression, classes_for_init,
            actual_class_instance(Head(classes_for_init), expression))

\* AlgExp.initializer(expression, *args)
initializer_of(expression, args) ==
    initializer_loop(expression, IF args = <<>> THEN all_subclasses ELSE args)

\* the AssertionError of VariableAlgExp._substitute_check
NotInDomain ==
    [kind |-> "Err", err |-> "AssertionError", message |-> "NUMBER_IS_NOT_IN_VARIABLE_DOMAIN"]

\* UnionAlgSet.__contains__: an inner set of the class of the item that is
\* equal to the item
union_contains(union_set, item) ==
    \E k \in 1..Len(union_set.content) :
        /\ union_set.content[k].kind = item.kind
        /\ union_set.content[k] = item

\* exp_number in self._variables_domains[instance_variable] for a whole
\* number: __contains__ of the class of the domain
number_in_domain(alg_set, exp_number) ==
    IF IsUnion(alg_set) THEN union_contains(alg_set, exp_number)
    ELSE IF IsDiscrete(alg_set) THEN discrete_contains(alg_set, value(exp_number).num)
    ELSE interval_contains(alg_set, value(exp_number).num)

\* VariableAlgExp._substitute_check for the expression made of the number
SubstituteCheckWith(alg_exp, variable, exp_number) ==
    IF IsErr(exp_number)
    THEN IF exp_number.err \in {"AssertionError", "ValueError", "AlgExpError"}
         THEN Err("ValueError") ELSE exp_number
    ELSE IF ~contains(alg_exp, variable) THEN Bool(FALSE)
    ELSE IF variable_by_content(alg_exp.variables, variable) = NoneValue THEN Err("KeyError")
    ELSE IF ~number_in_domain(
                alg_exp.variables_domains[variable_by_content(alg_exp.variables, variable)],
                exp_number)
         THEN NotInDomain
    ELSE Bool(TRUE)

\* VariableAlgExp._substitute_check for a variable and a number given as texts
substitute_check(alg_exp, variable, number) ==
    SubstituteCheckWith(alg_exp, variable, initializer(number))

\* variable_to_substitution.is_immutable_content()
is_immutable_content(variable) ==
    is_wrapped_in_brackets(
        IF StartsWith(variable.content, <<"-">>) THEN Tail(variable.content)
        ELSE variable.content, "{", "}")

\* VariableCompositeAlgExp.__substitute(alg_exp, substitution_dict); the dict
\* is a set of pairs <<instance, number expression>>. The result holds the
\* expression as the call leaves it, the exception that leaves the call if
\* any, and what the call returns.
RECURSIVE substitute_all(_, _)

\* the first loop over the content, from the i-th inner expression on: the
\* composite inner expressions are substituted in place
RECURSIVE SubstituteInner(_, _, _)
SubstituteInnerWith(content, i, substitution_dict, inner) ==
    IF IsErr(inner.raised)
    THEN [content |-> [content EXCEPT ![i] = inner.alg_exp], raised |-> inner.raised]
    ELSE SubstituteInner([content EXCEPT ![i] = inner.alg_exp], i + 1, substitution_dict)

SubstituteInner(content, i, substitution_dict) ==
    IF i > Len(content) THEN [content |-> content, raised |-> NoneValue]
    ELSE IF content[i].kind = "VC"
         THEN SubstituteInnerWith(content, i, substitution_dict,
                    substitute_all(content[i], substitution_dict))
    ELSE SubstituteInner(content, i + 1, substitution_dict)

\* the inner expressions that are keys of the dict are replaced, and the
\* variables of the dict are removed from the expression
SubstituteReplace(alg_exp, content, substitution_dict) ==
    [alg_exp EXCEPT
        !.content =
            [i \in 1..Len(content) |->
                IF content[i].kind = "VA" /\ \E pair \in substitution_dict : pair[1] = content[i]
                THEN (CHOOSE pair \in substitution_dict : pair[1] = content[i])[2]
                ELSE content[i]],
        !.immutable_contents =
            @ \ {SubSeq(pair[1].content, 2, Len(pair[1].content) - 1) :
                    pair \in {p \in substitution_dict :
                                p[1] \in alg_exp.variables /\ is_immutable_content(p[1])}},
        !.variables_domains =
            [variable \in alg_exp.variables \ {pair[1] : pair \in substitution_dict}
                |-> alg_exp.variables_domains[variable]],
        !.variables = @ \ {pair[1] : pair \in substitution_dict}]

\* the end of __substitute: an expression without variables is given to
\* AlgExp.initializer as text
SubstituteReturnWith(alg_exp, numeric) ==
    IF IsErr(numeric) THEN [alg_exp |-> alg_exp, raised |-> numeric, returned |-> NoneValue]
    ELSE [alg_exp |-> alg_exp, raised |-> NoneValue, returned |-> numeric]

SubstituteReturn(alg_exp) ==
    IF alg_exp.variables = {} THEN SubstituteReturnWith(alg_exp, initializer(to_text(alg_exp)))
    ELSE [alg_exp |-> alg_exp, raised |-> NoneValue, returned |-> alg_exp]

SubstituteAfterInner(alg_exp, substitution_dict, inner) ==
    IF IsErr(inner.raised)
    THEN [alg_exp |-> [alg_exp EXCEPT !.content = inner.content],
          raised |-> inner.raised, returned |-> NoneValue]
    ELSE SubstituteReturn(SubstituteReplace(alg_exp, inner.content, substitution_dict))

substitute_all(alg_exp, substitution_dict) ==
    SubstituteAfterInner(alg_exp, substitution_dict,
        SubstituteInner(alg_exp.content, 1, substitution_dict))

\* VariableCompositeAlgExp.substitute({variable: number}). new_instance has
\* a content list and a variables list of its own, and shares the inner
\* expressions with self: what the call returns or raises, and self as the
\* call leaves it
SubstituteDone(alg_exp, done) ==
    [returned |-> IF IsErr(done.raised) THEN done.raised ELSE done.returned,
     self |-> [alg_exp EXCEPT !.content =
                [i \in 1..Len(alg_exp.content) |->
                    IF alg_exp.content[i].kind = "VC" THEN done.alg_exp.content[i]
                    ELSE alg_exp.content[i]]]]

SubstituteChecked(alg_exp, variable, number, checked) ==
    IF IsErr(checked) THEN [returned |-> checked, self |-> alg_exp]
    ELSE SubstituteDone(alg_exp,
            substitute_all(alg_exp,
                IF checked.value
                THEN {<<variable_by_content(alg_exp.variables, variable), initializer(number)>>}
                ELSE {}))

substitute(alg_exp, variable, number) ==
    SubstituteChecked(alg_exp, variable, number, substitute_check(alg_exp, variable, number))

\* VariableCompositeAlgExp.substitute with every pair of the dict validated
\* and substituted in its turn, before the next pair is looked at
RECURSIVE substitute_each_in_turn(_, _)
EachInTurnWith(alg_exp, substitution_dict, first) ==
    IF IsErr(first.returned) \/ first.returned.kind # "VC" \/ Len(substitution_dict) = 1
    THEN first
    ELSE [returned |-> substitute_each_in_turn(first.returned, Tail(substitution_dict)).returned,
          self |-> first.self]

substitute_each_in_turn(alg_exp, substitution_dict) ==
    IF substitution_dict = <<>> THEN [returned |-> alg_exp, self |-> alg_exp]
    ELSE EachInTurnWith(alg_exp, substitution_dict,
            substitute(alg_exp, substitution_dict[1].variable, substitution_dict[1].number))

\* the loop of VariableCompositeAlgExp.substitute over the items of the dict,
\* given as the sequence of its pairs in the order of the dict: the first
\* pair that _substitute_check refuses ends the call with its exception; the
\* pairs whose variable is in the expression make corrected_substitution_dict
RECURSIVE CheckPairs(_, _, _, _)
CheckPairsWith(alg_exp, substitution_dict, k, corrected_substitution_dict, checked) ==
    IF IsErr(checked) THEN checked
    ELSE CheckPairs(alg_exp, substitution_dict, k + 1,
            IF checked.value
            THEN corrected_substitution_dict \cup
                    {<<variable_by_content(alg_exp.variables, substitution_dict[k].variable),
                       initializer(substitution_dict[k].number)>>}
            ELSE corrected_substitution_dict)

CheckPairs(alg_exp, substitution_dict, k, corrected_substitution_dict) ==
    IF k > Len(substitution_dict)
    THEN [kind |-> "Checked", corrected_substitution_dict |-> corrected_substitution_dict]
    ELSE CheckPairsWith(alg_exp, substitution_dict, k, corrected_substitution_dict,
            substitute_check(alg_exp, substitution_dict[k].variable,
                             substitution_dict[k].number))

SubstituteSeveralChecked(alg_exp, checked) ==
    IF IsErr(checked) THEN [returned |-> checked, self |-> alg_exp]
    ELSE SubstituteDone(alg_exp, substitute_all(alg_exp, checked.corrected_substitution_dict))

\* VariableCompositeAlgExp.substitute(substitution_dict) for a dict of
\* several pairs
substitute_several(alg_exp, substitution_dict) ==
    SubstituteSeveralChecked(alg_exp, CheckPairs(alg_exp, substitution_dict, 1, {}))

-----------------------------------------------------------------------------
(* The canonicalizer as a state machine: a text is given to _correction of *)
(* a new instance, and the corrected text is given to _correction again.   *)

CLASSES == {NUMERIC_ATOMIC, NUMERIC_COMPOSITE, VARIABLE_ATOMIC, VARIABLE_COMPOSITE}

\* the pieces the given texts are made of
CanonTokens == {<<" ">>, <<"-">>, <<"(">>, <<")">>, <<"1">>, <<"x">>, INF_STRING}

\* the texts of at most n tokens
RECURSIVE TokenTexts(_)
TokenTexts(n) ==
    IF n = 0 THEN {<<>>}
    ELSE TokenTexts(n - 1) \cup {t \o k : t \in TokenTexts(n - 1), k \in CanonTokens}

\* self._correction(expression)
Canonicalize ==
    /\ cpc = "idle"
    /\ \E cls \in CLASSES, expression \in TokenTexts(MaxTokens) :
        /\ ccls' = cls
        /\ ctext' = expression
        /\ cout' = correction(expression, cls)
    /\ cpc' = "corrected"
    /\ cagain' = <<>>
    /\ UNCHANGED otherThanCanon

\* self._correction(corrected_expression) of a new instance of the same class
Recanonicalize ==
    /\ cpc = "corrected"
    /\ cagain' = correction(cout, ccls)
    /\ cpc' = "recorrected"
    /\ UNCHANGED <<ccls, ctext, cout>>
    /\ UNCHANGED otherThanCanon

\* the caller drops the texts
CanonDiscard ==
    /\ cpc # "idle"
    /\ cpc' = "idle"
    /\ ccls' = "none"
    /\ ctext' = <<>>
    /\ cout' = <<>>
    /\ cagain' = <<>>
    /\ UNCHANGED otherThanCanon

CanonNext ==
    \/ Canonicalize
    \/ Recanonicalize
    \/ CanonDiscard

SpecCanon == Init /\ [][CanonNext]_vars

\* C2: canonicalization is idempotent: for every text given, the correction
\* of the corrected text is the corrected text.
C2_CanonicalizationIsIdempotent ==
    cpc = "recorrected" => cagain = cout

-----------------------------------------------------------------------------
(* The loop of AlgExp._correction, pass by pass: a caller gives a text to  *)
(* _correction of a new instance; the special strings and the immutable    *)
(* contents are substituted, every pass of the loop applies the correction *)
(* methods of the class once, and the loop ends after the pass that        *)
(* changes nothing.                                                        *)

\* AlgExp._substitute_all_special_numeric_strings(expression)
substitute_all_special_numeric_strings(expression, index) ==
    substitute_special_numeric_string(
        substitute_special_numeric_string(expression, INF_STRING, index),
        NAN_STRING,
        IF FoundSpecialString(expression, INF_STRING) THEN index + 1 ELSE index)

\* the expression the loop of _correction starts with
expression_before_loop(expression, cls) ==
    IF cls \in {VARIABLE_ATOMIC, VARIABLE_COMPOSITE}
    THEN substitute_all_special_numeric_strings(
            substitute_immutable_areas(expression,
                found_and_get_immutable_contents(expression), FALSE, 1),
            Len(found_and_get_immutable_contents(expression)) + 1)
    ELSE IF cls = NUMERIC_ATOMIC
    THEN IF numeric_atomic_special_string(expression) = <<>> THEN expression
         ELSE Replace(expression, numeric_atomic_special_string(expression), subs_string(1))
    ELSE substitute_all_special_numeric_strings(expression, 1)

\* the texts given, of at most MaxLoopTokens tokens
LoopTexts == TokenTexts(MaxLoopTokens)

\* self._correction(expression) is entered: original_expression = ""
EnterCorrection ==
    /\ lpc = "idle"
    /\ \E cls \in CLASSES, expression \in LoopTexts :
        /\ lcls' = cls
        /\ ltext' = expression
        /\ lexpression' = expression_before_loop(expression, cls)
    /\ loriginal' = <<>>
    /\ lpasses' = 0
    /\ lpc' = "looping"
    /\ UNCHANGED lout
    /\ UNCHANGED otherThanLoop

\* one pass of the while loop: expression != original_expression
CorrectionPass ==
    /\ lpc = "looping"
    /\ lexpression # loriginal
    /\ lpasses < MaxPasses
    /\ loriginal' = lexpression
    /\ lexpression' = correction_methods(lexpression, lcls)
    /\ lpasses' = lpasses + 1
    /\ UNCHANGED <<lpc, lcls, ltext, lout>>
    /\ UNCHANGED otherThanLoop

\* the loop ends, the substitutions are reversed and the text is returned
LeaveCorrection ==
    /\ lpc = "looping"
    /\ lexpression = loriginal
    /\ lout' = correction(ltext, lcls)
    /\ lpc' = "returned"
    /\ UNCHANGED <<lcls, ltext, lexpression, loriginal, lpasses>>
    /\ UNCHANGED otherThanLoop

\* the caller drops the text
LoopDiscard ==
    /\ lpc = "returned"
    /\ lpc' = "idle"
    /\ lcls' = "none"
    /\ ltext' = <<>>
    /\ lexpression' = <<>>
    /\ loriginal' = <<>>
    /\ lpasses' = 0
    /\ lout' = <<>>
    /\ UNCHANGED otherThanLoop

LoopNext == EnterCorrection \/ CorrectionPass \/ LeaveCorrection \/ LoopDiscard

SpecLoop == Init /\ [][LoopNext]_vars

\* the step of CorrectionPass, seen on the counter of passes
PassTaken ==
    /\ lpc = "looping"
    /\ lexpression # loriginal
    /\ lpasses < MaxPasses
    /\ lpasses' = lpasses + 1

\* the step of LeaveCorrection, seen on the position of the call
LoopLeft ==
    /\ lpc = "looping"
    /\ lexpression = loriginal
    /\ lpc' = "returned"

\* a call that has been entered goes on with its next step: the interpreter
\* runs the body of the loop and the return that follows it
SpecLoopFair ==
    /\ SpecLoop
    /\ WF_lpasses(PassTaken)
    /\ WF_lpc(LoopLeft)

\* C27: _correction returns for every text given, whether its brackets are
\* balanced or not: the loop that applies the correction methods again reaches
\* a text the methods leave as it is, after a number of passes that is
\* followed to its end.
C27_CorrectionTerminates == (lpc = "looping") ~> (lpc = "returned")

\* the loop has returned after three passes for a text with a bracket that
\* is not closed
C27_Witness ==
    /\ lpc = "returned"
    /\ lpasses = 3
    /\ Count(ltext, "(") # Count(ltext, ")")
    /\ lexpression = loriginal

-----------------------------------------------------------------------------
(* Immutable contents in the canonicalizer: a text made of immutable       *)
(* areas and of other pieces is given to _correction of a new instance of  *)
(* a class of variable expressions.                                        *)

MaxPieces == 3

\* the contents of the immutable areas of the texts given
GivenImmutableContents ==
    { <<"a">>, <<"a", "b", "c">>, <<"a", " ", "b">>, <<"-", "-", "a">>, <<"a", "-", "b">>,
      <<"#", "1">>, <<"#", "2">> }

\* the pieces of the texts: an immutable area or a piece outside the areas
ImmutablePieces ==
    {<<"{">> \o content \o <<"}">> : content \in GivenImmutableContents}
        \cup {<<"x">>, <<"+">>, <<"-">>, <<"1">>, <<" ">>}

\* the texts of at most n pieces
RECURSIVE PieceTexts(_)
PieceTexts(n) ==
    IF n = 0 THEN {<<>>}
    ELSE PieceTexts(n - 1) \cup {t \o k : t \in PieceTexts(n - 1), k \in ImmutablePieces}

\* self._correction(expression) of a VariableAlgExp for a text with
\* immutable areas
CorrectImmutable ==
    /\ cpc = "idle"
    /\ \E cls \in {VARIABLE_ATOMIC, VARIABLE_COMPOSITE}, expression \in PieceTexts(MaxPieces) :
        /\ ccls' = cls
        /\ ctext' = expression
        /\ cout' = correction(expression, cls)
    /\ cpc' = "corrected"
    /\ cagain' = <<>>
    /\ UNCHANGED otherThanCanon

ImmNext ==
    \/ CorrectImmutable
    \/ CanonDiscard

SpecImm == Init /\ [][ImmNext]_vars

\* the contents of the immutable areas of a text, one after another
AreaContents(expression) ==
    [k \in 1..Len(get_immutable_content_areas(expression)) |->
        SubSeq(expression, get_immutable_content_areas(expression)[k][1],
                           get_immutable_content_areas(expression)[k][2])]

\* C13: immutable content is never rewritten: the contents of the immutable
\* areas of the corrected text are, one after another, the contents of the
\* immutable areas of the text given, and the text "{abc}+1" is corrected to
\* itself.
C13_ImmutableContentIsKept ==
    cpc = "corrected" =>
        /\ AreaContents(cout) = AreaContents(ctext)
        /\ ctext = <<"{", "a", "b", "c", "}", "+", "1">> => cout = ctext

-----------------------------------------------------------------------------
(* Numeric expressions as a state machine: a text is parsed, the           *)
(* expression is evaluated and rendered, the rendered text is parsed and   *)
(* that expression is evaluated.                                           *)

\* the numbers and the operators of the texts given to the parser
Atoms == {<<"0">>, <<"2">>, <<"3">>}
TextOperators == {"+", "*", "/", "^"}

\* the texts with n atoms: two operands joined by an operator, where an
\* operand with an operator of its own may stand in brackets
RECURSIVE Terms(_, _, _)
Operands(atoms, operators, n) ==
    IF n = 1 THEN Terms(atoms, operators, 1)
    ELSE Terms(atoms, operators, n)
            \cup {<<"(">> \o t \o <<")">> : t \in Terms(atoms, operators, n)}

Terms(atoms, operators, n) ==
    IF n = 1 THEN atoms
    ELSE UNION {{l \o <<operator>> \o r :
                    l \in Operands(atoms, operators, k),
                    r \in Operands(atoms, operators, n - k),
                    operator \in operators} :
                k \in 1..(n - 1)}

\* the texts of the documented examples
ExampleTexts ==
    { <<"1", "/", "0">>,
      <<"1", "/", "(", "1", "-", "1", ")">>,
      <<"(", "1", "-", "1", ")", "/", "2">>,
      <<"2", "+", "3", "*", "4">>,
      <<"(", "2", "+", "3", ")", "*", "4">> }

ValidTexts == UNION {Terms(Atoms, TextOperators, n) : n \in 1..MaxAtoms} \cup ExampleTexts

\* AlgExp.initializer(text, NumericAtomicAlgExp, NumericCompositeAlgExp)
Construct ==
    /\ epc = "idle"
    /\ \E expression \in ValidTexts :
        /\ etext' = expression
        /\ etree' = initializer(expression)
    /\ epc' = "constructed"
    /\ UNCHANGED <<evalue, eout, etree2, evalue2>>
    /\ UNCHANGED otherThanExp

\* alg_exp.value
Evaluate ==
    /\ epc = "constructed"
    /\ ~IsErr(etree)
    /\ evalue' = value(etree)
    /\ epc' = "evaluated"
    /\ UNCHANGED <<etext, etree, eout, etree2, evalue2>>
    /\ UNCHANGED otherThanExp

\* str(alg_exp)
Render ==
    /\ epc = "evaluated"
    /\ eout' = to_text(etree)
    /\ epc' = "rendered"
    /\ UNCHANGED <<etext, etree, evalue, etree2, evalue2>>
    /\ UNCHANGED otherThanExp

\* AlgExp.initializer(str(alg_exp), NumericAtomicAlgExp, NumericCompositeAlgExp)
Reconstruct ==
    /\ epc = "rendered"
    /\ etree2' = initializer(eout)
    /\ epc' = "reconstructed"
    /\ UNCHANGED <<etext, etree, evalue, eout, evalue2>>
    /\ UNCHANGED otherThanExp

\* the value of the reconstructed expression
Reevaluate ==
    /\ epc = "reconstructed"
    /\ ~IsErr(etree2)
    /\ evalue2' = value(etree2)
    /\ epc' = "reevaluated"
    /\ UNCHANGED <<etext, etree, evalue, eout, etree2>>
    /\ UNCHANGED otherThanExp

\* the caller drops the expressions
ExpDiscard ==
    /\ epc # "idle"
    /\ epc' = "idle"
    /\ etext' = <<>>
    /\ etree' = NoneValue
    /\ evalue' = NoneValue
    /\ eout' = <<>>
    /\ etree2' = NoneValue
    /\ evalue2' = NoneValue
    /\ UNCHANGED otherThanExp

ExpNext ==
    \/ Construct
    \/ Evaluate
    \/ Render
    \/ Reconstruct
    \/ Reevaluate
    \/ ExpDiscard

SpecExp == Init /\ [][ExpNext]_vars

\* C1: round trip: when the expression parsed from a valid numeric text has
\* a value, the text it is rendered to parses to an expression, and the
\* value of that expression, when the model has a number for it, is the same.
C1_RoundTripKeepsTheValue ==
    /\ epc \in {"reconstructed", "reevaluated"} /\ IsNumber(evalue) => ~IsErr(etree2)
    /\ epc = "reevaluated" /\ IsNumber(evalue) /\ IsNumber(evalue2) => evalue2 = evalue

\* c1^(c2^(...^cn)) for the values c1..cn
RECURSIVE RightTower(_)
RightTower(values) ==
    IF Len(values) = 1 THEN values[1]
    ELSE IF \E k \in 1..Len(values) : ~IsNumber(values[k]) THEN Unrepresented
    ELSE IF ~IsNumber(RightTower(Tail(values))) THEN Unrepresented
    ELSE Pow(values[1], RightTower(Tail(values)))

ValuesOf(content) == [k \in 1..Len(content) |-> value(content[k])]

\* C10: exponentiation is right-associative: the value of a "^" expression
\* with the inner expressions c1..cn is c1^(c2^(...^cn)), and the value of
\* the expression parsed from "2^3^2" is 512.
C10_PowerIsRightAssociative ==
    /\ epc = "evaluated" /\ IsComposite(etree) /\ etree.operator = "^"
            /\ IsNumber(RightTower(ValuesOf(etree.content)))
        => evalue = RightTower(ValuesOf(etree.content))
    /\ epc = "evaluated" /\ etext = <<"2", "^", "3", "^", "2">> => evalue = Whole(512)

C10_Witness ==
    /\ epc = "evaluated"
    /\ etext = <<"2", "^", "3", "^", "2">>
    /\ IsComposite(etree) /\ etree.operator = "^" /\ Len(etree.content) = 3
    /\ evalue = Whole(512)

\* the inner expressions after the first whose value is exactly zero
ZeroDivisors(alg_exp) == {k \in 2..Len(alg_exp.content) : value(alg_exp.content[k]) = Whole(0)}

\* every inner expression has a value the model has a number for
AllRepresented(alg_exp) == \A k \in 1..Len(alg_exp.content) : IsNumber(value(alg_exp.content[k]))

\* C11: division by zero fails with ZeroDivisionError and yields no value:
\* the text "1/0" is no expression (ZeroDivisionError); the value of a "/"
\* expression is ZeroDivisionError whenever an inner expression after the
\* first has the value zero, also a composite one, and is a number only when
\* none has; a first inner expression of value zero before divisors that are
\* not zero gives the value zero.
C11_DivisionByZeroFails ==
    /\ epc # "idle" /\ etext = <<"1", "/", "0">> => etree = Err("ZeroDivisionError")
    /\ epc = "evaluated" /\ IsComposite(etree) /\ etree.operator = "/" =>
        /\ ZeroDivisors(etree) # {}
                /\ (\A k \in 1..Len(etree.content) :
                        IsNumber(value(etree.content[k])) \/ IsErr(value(etree.content[k])))
            => evalue = Err("ZeroDivisionError")
        /\ IsNumber(evalue) => ZeroDivisors(etree) = {}
        /\ AllRepresented(etree) /\ value(etree.content[1]) = Whole(0) /\ ZeroDivisors(etree) = {}
            => evalue = Whole(0)

C11_Witness ==
    /\ epc = "evaluated"
    /\ etext = <<"1", "/", "(", "1", "-", "1", ")">>
    /\ IsComposite(etree) /\ etree.operator = "/"
    /\ IsComposite(etree.content[2])
    /\ ZeroDivisors(etree) = {2}
    /\ evalue = Err("ZeroDivisionError")

\* C12 as stated: the value of the expression parsed from "2+3*4" is 8.
C12_TwoPlusThreeTimesFourIsEight ==
    epc = "evaluated" /\ etext = <<"2", "+", "3", "*", "4">> => evalue = Whole(8)

\* C12: the expression parsed from "2+3*4" is the sum of 2 and the product
\* 3*4, and its value is 14.
C12_TwoPlusThreeTimesFourIsFourteen ==
    epc = "evaluated" /\ etext = <<"2", "+", "3", "*", "4">> =>
        /\ IsComposite(etree) /\ etree.operator = "+" /\ Len(etree.content) = 2
        /\ to_text(etree.content[2]) = <<"3", "*", "4">>
        /\ evalue = Whole(14)

C12_Witness ==
    /\ epc = "evaluated"
    /\ etext = <<"2", "+", "3", "*", "4">>
    /\ etree.kind = "NC"
    /\ evalue = Whole(14)

\* the number of brackets open in front of the k-th character of a text
DepthBefore(text, k) ==
    Count(SubSeq(text, 1, k - 1), "(") - Count(SubSeq(text, 1, k - 1), ")")

\* the places of a text where an operator stands outside every bracket
TopLevelPlaces(text, operator) ==
    {k \in 1..Len(text) : text[k] = operator /\ DepthBefore(text, k) = 0}

\* the first operator, in the order of OPERATORS, that stands outside every
\* bracket of the text
FirstTopLevelOperator(text) ==
    OPERATORS[CHOOSE k \in 1..Len(OPERATORS) :
        /\ TopLevelPlaces(text, OPERATORS[k]) # {}
        /\ \A j \in 1..(k - 1) : TopLevelPlaces(text, OPERATORS[j]) = {}]

\* the n-th place of a set of places, in text order; 0 in front of the first
\* and one behind the text after the last
NthPlace(text, places, n) ==
    IF n = 0 THEN 0
    ELSE IF n > Cardinality(places) THEN Len(text) + 1
    ELSE CHOOSE k \in places : Cardinality({j \in places : j < k}) = n - 1

\* the n-th piece of the text between the places
PieceBetween(text, places, n) ==
    SubSeq(text, NthPlace(text, places, n - 1) + 1, NthPlace(text, places, n) - 1)

\* a numeric composite expression made by splitting the canonical text
SplitOf(alg_exp, canonical) ==
    /\ alg_exp.operator = FirstTopLevelOperator(canonical)
    /\ Len(alg_exp.content) =
            Cardinality(TopLevelPlaces(canonical, alg_exp.operator)) + 1
    /\ \A n \in 1..Len(alg_exp.content) :
            alg_exp.content[n] =
                initializer(PieceBetween(canonical,
                                TopLevelPlaces(canonical, alg_exp.operator), n))

IsSplitText(canonical) ==
    /\ ~FLOAT_NUMBER(canonical)
    /\ \E k \in 1..Len(OPERATORS) : TopLevelPlaces(canonical, OPERATORS[k]) # {}

\* C21: a composite expression constructed from a text has the first operator
\* of OPERATORS that stands outside every bracket of the canonical text, and
\* its inner expressions are the pieces of the canonical text between all the
\* places of that operator outside brackets, in text order, one more than
\* there are places; "(2+3)*4" is a product of two expressions and has the
\* value 20.
C21_SplitAtTheFirstOperatorOutsideBrackets ==
    /\ epc # "idle" /\ ~IsErr(etree) /\ IsComposite(etree)
            /\ IsSplitText(correction(etext, NUMERIC_COMPOSITE)) =>
        SplitOf(etree, correction(etext, NUMERIC_COMPOSITE))
    /\ epc # "idle" /\ etext = <<"(", "2", "+", "3", ")", "*", "4">> =>
        /\ ~IsErr(etree) /\ IsComposite(etree)
        /\ etree.operator = "*" /\ Len(etree.content) = 2
    /\ epc = "evaluated" /\ etext = <<"(", "2", "+", "3", ")", "*", "4">> =>
        evalue = Whole(20)

C21_Witness ==
    /\ epc = "evaluated"
    /\ etext = <<"(", "2", "+", "3", ")", "*", "4">>
    /\ etree.kind = "NC" /\ etree.operator = "*"
    /\ etree.content[1].kind = "NC" /\ etree.content[1].operator = "+"
    /\ evalue = Whole(20)

-----------------------------------------------------------------------------
(* Variable expressions as a state machine: a caller constructs a          *)
(* VariableCompositeAlgExp from a text and the domain of x, and calls      *)
(* substitute on it, once or again.                                        *)

\* the variables, the number and the operators of the texts given
VariableAtoms == {<<"x">>, <<"y">>, <<"2">>}
VariableOperators == {"+", "/"}

VariableTexts == UNION {Terms(VariableAtoms, VariableOperators, n) : n \in 1..MaxVariableAtoms}

\* the limits of the domains given for x
DomainLimits == {0, 10}

\* a domain of two parts: the numbers between 0 and 10, and 11
GivenUnionDomain ==
    UnionAlgSet(<<DiscreteAlgSet(<<11>>), IntervalAlgSet(0, 10, FALSE, FALSE)>>)

\* the variables_domains dicts given: none, an interval for x, or the union
\* for x
GivenDomains ==
    {{}} \cup {{<<<<"x">>, interval>>} :
                interval \in {iv \in {IntervalAlgSet(l, u, lc, rc) :
                                        l \in DomainLimits, u \in DomainLimits,
                                        lc \in BOOLEAN, rc \in BOOLEAN} :
                                IsInterval(iv) /\ ~is_one_number(iv)}}
         \cup {{<<<<"x">>, GivenUnionDomain>>}}

\* the variables named in a substitution, and the numbers given as texts
SubstitutedVariables == {<<"x">>, <<"y">>}
SubstitutionNumbers ==
    {<<"0">>, <<"5">>, <<"1", "0">>, <<"1", "1">>, <<"+">>, <<"1", "/", "0">>}

\* VariableCompositeAlgExp(text, variables_domains)
ConstructVariable ==
    /\ vpc = "idle"
    /\ \E expression \in VariableTexts, variables_domains \in GivenDomains :
        /\ vtext' = expression
        /\ vdomains' = variables_domains
        /\ vtree' = VariableCompositeAlgExp(expression, variables_domains, <<>>)
    /\ vpc' = "constructed"
    /\ UNCHANGED <<vbefore, vsub, vres, vcalls>>
    /\ UNCHANGED otherThanVar

\* alg_exp.substitute({variable: number}): the call returns or raises, and
\* leaves the inner expressions it shares with alg_exp as it made them
Substitute ==
    /\ vpc \in {"constructed", "substituted"}
    /\ ~IsErr(vtree)
    /\ vcalls < MaxSubstitutions
    /\ \E variable \in SubstitutedVariables, number \in SubstitutionNumbers :
        /\ vsub' = [variable |-> variable, number |-> number]
        /\ \E call \in {substitute(vtree, variable, number)} :
            /\ vres' = call.returned
            /\ vtree' = call.self
    /\ vbefore' = vtree
    /\ vcalls' = vcalls + 1
    /\ vpc' = "substituted"
    /\ UNCHANGED <<vtext, vdomains>>
    /\ UNCHANGED otherThanVar

\* the numbers of the dicts of several pairs: a number of every domain
\* given, a number outside the domains given for x, and a text that is no
\* number
SeveralNumbers == {<<"5">>, <<"1", "1">>, <<"+">>}

\* the dicts of several pairs, as the sequence of their items
SeveralPairs ==
    {<<[variable |-> first, number |-> number1], [variable |-> second, number |-> number2]>> :
        <<first, second, number1, number2>> \in
            {q \in SubstitutedVariables \X SubstitutedVariables
                    \X SeveralNumbers \X SeveralNumbers : q[1] # q[2]}}

\* alg_exp.substitute({variable1: number1, variable2: number2})
SubstituteSeveral ==
    /\ vpc \in {"constructed", "substituted"}
    /\ ~IsErr(vtree)
    /\ \E substitution_dict \in SeveralPairs :
        /\ vcalls + Len(substitution_dict) <= MaxSubstitutions
        /\ vsub' = [pairs |-> substitution_dict]
        /\ \E call \in {substitute_several(vtree, substitution_dict)} :
            /\ vres' = call.returned
            /\ vtree' = call.self
        /\ vcalls' = vcalls + Len(substitution_dict)
    /\ vbefore' = vtree
    /\ vpc' = "substituted several"
    /\ UNCHANGED <<vtext, vdomains>>
    /\ UNCHANGED otherThanVar

\* the caller drops the expressions
VarDiscard ==
    /\ vpc # "idle"
    /\ vpc' = "idle"
    /\ vtext' = <<>>
    /\ vdomains' = {}
    /\ vtree' = NoneValue
    /\ vbefore' = NoneValue
    /\ vsub' = NoneValue
    /\ vres' = NoneValue
    /\ vcalls' = 0
    /\ UNCHANGED otherThanVar

VarNext ==
    \/ ConstructVariable
    \/ Substitute
    \/ SubstituteSeveral
    \/ VarDiscard

SpecVar == Init /\ [][VarNext]_vars

\* the atomic variable expressions of an expression, at any depth
RECURSIVE Occurrences(_)
Occurrences(alg_exp) ==
    IF alg_exp.kind = "VA" THEN {alg_exp}
    ELSE IF IsComposite(alg_exp)
         THEN UNION {Occurrences(alg_exp.content[k]) : k \in 1..Len(alg_exp.content)}
    ELSE {}

\* the variables an expression still has
SurvivingVariables(alg_exp) ==
    IF alg_exp.kind = "VC" THEN Cardinality(alg_exp.variables) ELSE 0

\* a substitution of a number that is an expression, for a variable that
\* occurs in the expression, has been called
SubstitutedOccurring ==
    /\ vpc = "substituted"
    /\ ~IsErr(initializer(vsub.number))
    /\ contains(vbefore, vsub.variable)

\* the domain of the substituted variable, and the number as an integer
DomainOfSubstituted == vbefore.variables_domains[variable_by_content(vbefore.variables, vsub.variable)]
NumberSubstituted == ParseNat(vsub.number)

\* strictly between the limits, or equal to a limit whose side is closed
IsMember(interval, n) ==
    \/ interval.lower_limit < n /\ n < interval.upper_limit
    \/ interval.lower_limit = n /\ interval.is_left_closed
    \/ interval.upper_limit = n /\ interval.is_right_closed

C4_RepeatedVariableIsOneIdentity ==
    /\ vpc = "constructed" /\ ~IsErr(vtree) =>
        \A occurrence \in Occurrences(vtree) : occurrence \in vtree.variables
    /\ SubstitutedOccurring /\ ~IsErr(vres) =>
        /\ ~contains(vres, vsub.variable)
        /\ SurvivingVariables(vres) = SurvivingVariables(vbefore) - 1

\* x stands twice in the text, once of them in an inner expression, and is
\* substituted in a newly constructed expression: y is left
C4_Witness ==
    /\ SubstitutedOccurring
    /\ vcalls = 1
    /\ vtext = <<"x", "/", "(", "x", "+", "y", ")">>
    /\ vsub = [variable |-> <<"x">>, number |-> <<"5">>]
    /\ Cardinality(Occurrences(vbefore)) = 2
    /\ vres.kind = "VC"
    /\ to_text(vres) = <<"5", "/", "(", "5", "+", "y", ")">>
    /\ SurvivingVariables(vres) = 1

\* what a caller can see of an expression: its rendered text and, for a
\* composite variable expression, its variables, their domains and the same
\* of every composite inner expression
RECURSIVE Seen(_)
Seen(alg_exp) ==
    IF alg_exp.kind = "VC"
    THEN [text |-> to_text(alg_exp),
          variables |-> alg_exp.variables,
          variables_domains |-> alg_exp.variables_domains,
          inner |-> [k \in 1..Len(alg_exp.content) |-> Seen(alg_exp.content[k])]]
    ELSE [text |-> to_text(alg_exp)]

\* C18: substitute leaves the expression it is called on unchanged: after
\* the call the rendered text, the variables and the domains of the
\* expression and of every composite inner expression are what they were
\* before the call.
C18_SubstituteLeavesTheExpressionUnchanged ==
    vpc = "substituted" /\ ~IsErr(initializer(vsub.number)) => Seen(vtree) = Seen(vbefore)

\* a substitution for a variable that does not occur in the expression has
\* been called
SubstitutedAbsent ==
    /\ vpc = "substituted"
    /\ ~contains(vbefore, vsub.variable)

\* C19: a substitution for a variable that does not occur in the expression
\* does not fail and returns an expression with the tree, the variables and
\* the domains of the original; but a number that cannot be constructed as a
\* numeric expression fails with the ValueError of _substitute_check, whether
\* the variable occurs or not.
C19_AbsentVariableIsNoOpAfterTheNumberIsValidated ==
    /\ SubstitutedAbsent /\ ~IsErr(initializer(vsub.number)) =>
        /\ ~IsErr(vres)
        /\ Seen(vres) = Seen(vbefore)
        /\ Seen(vtree) = Seen(vbefore)
    /\ vpc = "substituted" /\ IsErr(initializer(vsub.number)) => vres = Err("ValueError")

\* the number is in the discrete set of the union or in one of its intervals
IsMemberOfUnion(union_set, n) ==
    \E k \in 1..Len(union_set.content) :
        \/ IsDiscrete(union_set.content[k]) /\ SeqContains(union_set.content[k].content, n)
        \/ IsInterval(union_set.content[k]) /\ IsMember(union_set.content[k], n)

\* C20: a number is in a UnionAlgSet exactly when it is a number of the
\* discrete set of the union or lies in one of its intervals, so a variable
\* whose domain is a union accepts the numbers of every part of the union.
C20_UnionDomainAcceptsTheNumbersOfItsParts ==
    SubstitutedOccurring /\ IsUnion(DomainOfSubstituted) =>
        /\ number_in_domain(DomainOfSubstituted, initializer(vsub.number))
                <=> IsMemberOfUnion(DomainOfSubstituted, NumberSubstituted)
        /\ vres = NotInDomain <=> ~IsMemberOfUnion(DomainOfSubstituted, NumberSubstituted)

\* the contents of the variables that occur in an expression, at any depth
OccurringContents(alg_exp) == {occurrence.content : occurrence \in Occurrences(alg_exp)}

\* the domain map and the variable list of a composite variable expression
\* name exactly the variables that occur in it, with the sets of the root's
\* map, and so do those of every composite inner expression
RECURSIVE DomainMapsAgree(_, _)
DomainMapsAgree(alg_exp, root) ==
    alg_exp.kind = "VC" =>
        /\ {variable.content : variable \in DOMAIN alg_exp.variables_domains}
                = OccurringContents(alg_exp)
        /\ {variable.content : variable \in alg_exp.variables} = OccurringContents(alg_exp)
        /\ \A variable \in DOMAIN alg_exp.variables_domains :
                /\ variable \in DOMAIN root.variables_domains
                /\ alg_exp.variables_domains[variable] = root.variables_domains[variable]
        /\ \A k \in 1..Len(alg_exp.content) : DomainMapsAgree(alg_exp.content[k], root)

\* the set the dict given at construction names for a variable, or the
\* default
DomainGiven(content) ==
    IF \E pair \in vdomains : pair[1] = content
    THEN (CHOOSE pair \in vdomains : pair[1] = content)[2]
    ELSE IntervalAlgSet(-Inf, Inf, FALSE, FALSE)

\* C28: after construction and after every substitution in a sequence of
\* substitutions, the domain map of the expression and of every inner
\* expression with variables has as keys exactly the variables that occur in
\* it, each with the set of the root's map; a variable given no domain has
\* the open interval (-inf, inf); a substituted variable is in neither the
\* variable list nor the domain map of the expression returned.
C28_DomainMapsNameTheOccurringVariables ==
    /\ vpc = "constructed" /\ ~IsErr(vtree) =>
        /\ DomainMapsAgree(vtree, vtree)
        /\ \A variable \in vtree.variables :
                vtree.variables_domains[variable] = DomainGiven(variable.content)
    /\ vpc = "substituted" /\ ~IsErr(vres) /\ vres.kind = "VC" =>
        /\ DomainMapsAgree(vres, vres)
        /\ \A variable \in vres.variables :
                /\ variable.content # vsub.variable
                /\ vres.variables_domains[variable] = DomainGiven(variable.content)

\* a dict of several pairs has been given to substitute
SubstitutedSeveral == vpc = "substituted several"

\* the domain the expression has for the variable of a pair
DomainOfPair(pair) ==
    vbefore.variables_domains[variable_by_content(vbefore.variables, pair.variable)]

\* a pair that must not be substituted: its number is no numeric expression,
\* or its variable is in the expression and its number is outside the domain
\* of the variable
PairIsRefused(pair) ==
    \/ IsErr(initializer(pair.number))
    \/ /\ contains(vbefore, pair.variable)
       /\ IF IsUnion(DomainOfPair(pair))
          THEN ~IsMemberOfUnion(DomainOfPair(pair), ParseNat(pair.number))
          ELSE ~IsMember(DomainOfPair(pair), ParseNat(pair.number))

\* C29: a substitution of several variables is all or nothing: when any pair
\* of the dict has a number that is no numeric expression or that is outside
\* the domain of its variable, the call fails, whichever place the pair has
\* in the dict; and when the call fails with InvalidSubstitutionValue
\* (ValueError) or NotInDomain, no variable of the expression has been
\* substituted: the expression, its inner expressions, its variable list and
\* its domain map are what they were before the call.
C29_SeveralVariablesAreSubstitutedAllOrNothing ==
    SubstitutedSeveral =>
        /\ (\E k \in 1..Len(vsub.pairs) : PairIsRefused(vsub.pairs[k])) => IsErr(vres)
        /\ vres \in {Err("ValueError"), NotInDomain} =>
            /\ vtree = vbefore
            /\ Seen(vtree) = Seen(vbefore)

\* y, which stands in an inner expression, is given a number of its domain
\* in the first pair, and x a number outside its domain in the second: the
\* call fails with NotInDomain and y is still in the inner expression
C29_Witness ==
    /\ SubstitutedSeveral
    /\ vsub.pairs = <<[variable |-> <<"y">>, number |-> <<"5">>],
                      [variable |-> <<"x">>, number |-> <<"1", "1">>]>>
    /\ vtext = <<"x", "+", "2", "/", "y">>
    /\ vres = NotInDomain
    /\ to_text(vtree) = <<"x", "+", "2", "/", "y">>
    /\ vtree.content[2].kind = "VC"
    /\ Cardinality(vtree.content[2].variables) = 1

-----------------------------------------------------------------------------
(* The polymorphic constructor as a state machine: a caller gives a text   *)
(* and classes to AlgExp.initializer.                                      *)

\* the texts given to AlgExp.initializer
InitializerTexts ==
    { <<>>, <<" ">>, <<"+">>, <<"(", ")">>, <<"(">>, <<"1">>, <<"2", ".", "5">>, <<"1", "+", "2">>,
      <<"1", "/", "0">>, <<"x">>, <<"x", " ">>, <<"+", "x">>, <<"1", "x">>, <<"x", "+", "1">>,
      <<"x", "/", "0">>, <<"{", "a", "b", "}">>, <<"1", "+">>,
      <<")", "2", "+", "3", "(">>, <<"2", ")", "+", "(", "3">>, <<"(", "2", "+", "3">>,
      <<"2", "+", "3", ")">>, <<")", "x", "+", "1", "(">>, <<")", "(">>, <<"(", "2", "+", "3", ")">> }

\* the classes given: none, or different classes in any order
ClassLists ==
    {<<>>} \cup UNION {{classes \in [1..n -> CLASSES] :
                            \A j, k \in 1..n : j # k => classes[j] # classes[k]} :
                       n \in 1..Cardinality(CLASSES)}

\* AlgExp.initializer(expression, *args)
Initialize ==
    /\ ipc = "idle"
    /\ \E expression \in InitializerTexts, args \in ClassLists :
        /\ itext' = expression
        /\ iclasses' = args
        /\ ires' = initializer_of(expression, args)
    /\ ipc' = "called"
    /\ UNCHANGED otherThanInit

\* the caller drops the result
InitializerDiscard ==
    /\ ipc = "called"
    /\ ipc' = "idle"
    /\ itext' = <<>>
    /\ iclasses' = <<>>
    /\ ires' = NoneValue
    /\ UNCHANGED otherThanInit

InitializerNext ==
    \/ Initialize
    \/ InitializerDiscard

SpecInitializer == Init /\ [][InitializerNext]_vars

\* the candidates of the last call, and what each of them does with the text
Candidates == IF iclasses = <<>> THEN all_subclasses ELSE iclasses

Accepts(k) == ~IsErr(actual_class_instance(Candidates[k], itext))

KindOfClass(actual_class) ==
    IF actual_class = NUMERIC_ATOMIC THEN "NA"
    ELSE IF actual_class = NUMERIC_COMPOSITE THEN "NC"
    ELSE IF actual_class = VARIABLE_ATOMIC THEN "VA"
    ELSE "VC"

\* C14: AlgExp.initializer returns the instance of the first class, in the
\* order given, whose constructor accepts the text, never an instance of a
\* class that is not given, and fails with AlgExpError exactly when every
\* class given rejects the text, so that no other failure of a class is what
\* the caller gets.
C14_FirstAcceptingCandidateOrParseError ==
    ipc = "called" =>
        /\ \A k \in 1..Len(Candidates) :
                Accepts(k) /\ (\A j \in 1..(k - 1) : ~Accepts(j))
                    => ires = actual_class_instance(Candidates[k], itext)
        /\ ~IsErr(ires) => \E k \in 1..Len(Candidates) : ires.kind = KindOfClass(Candidates[k])
        /\ ires = Err("AlgExpError") <=> \A k \in 1..Len(Candidates) : ~Accepts(k)

\* every bracket of the text is closed after it is opened
BracketsBalanced(text) ==
    /\ Count(text, "(") = Count(text, ")")
    /\ \A k \in 1..Len(text) : Count(SubSeq(text, 1, k), "(") >= Count(SubSeq(text, 1, k), ")")

\* C15: a text whose brackets are unbalanced or mis-nested is rejected with
\* AlgExpError by AlgExp.initializer, whatever classes are given: it is
\* parsed into no expression.
C15_UnbalancedBracketsAreRejected ==
    ipc = "called" /\ ~BracketsBalanced(itext) => ires = Err("AlgExpError")

-----------------------------------------------------------------------------
(* The classification of two intervals as a state machine: a caller takes  *)
(* two intervals, or lets the interval test harness generate two, and      *)
(* classifies them with AlgSet._intersection_type in both orders and, for  *)
(* generated ones, with get_intersection_type of the harness.              *)

\* the names of Intersections
Intersections ==
    {"EMPTY", "ONE_NUMBER", "PARTIAL_OVERLAP", "INNER_LEFT_OVERLAP_WITHOUT_LOWER",
     "INNER_LEFT_OVERLAP", "INNER_OVERLAP", "EQUALITY_WITHOUT_LIMITS",
     "EQUALITY_WITHOUT_LOWER", "EQUALITY_WITHOUT_UPPER", "EQUALITY",
     "INNER_RIGHT_OVERLAP_WITHOUT_UPPER", "INNER_RIGHT_OVERLAP", "UNKNOWN_INTERSECTION"}

\* generate_interval(0, 10) of the harness
GeneratedMini == 0
GeneratedMaxi == 10

\* f"{left_bracket}{lower_limit}{sep}{upper_limit}{right_bracket}"
interval_text(left_bracket, lower_limit, upper_limit, right_bracket) ==
    <<left_bracket>> \o ShowInt(lower_limit) \o <<",">> \o ShowInt(upper_limit)
        \o <<right_bracket>>

\* what generate_interval(mini, maxi) can return: randint(mini, maxi),
\* randint(lower_limit, maxi) and, for different limits, any brackets;
\* every text goes with the numbers and brackets it was made of
generate_interval(mini, maxi) ==
    {[text |-> interval_text(IF g[1] = g[2] THEN "[" ELSE g[3], g[1], g[2],
                             IF g[1] = g[2] THEN "]" ELSE g[4]),
      lower_limit |-> g[1], upper_limit |-> g[2],
      is_left_closed |-> (IF g[1] = g[2] THEN "[" ELSE g[3]) = "[",
      is_right_closed |-> (IF g[1] = g[2] THEN "]" ELSE g[4]) = "]"] :
        g \in {h \in (mini..maxi) \X (mini..maxi) \X {"(", "["} \X {")", "]"} :
                    h[1] <= h[2]}}

\* set1[1:-1].split(sep) with the two texts read by the first digit only
limits_of_first_digits(text) ==
    <<DigitValue(text[2]),
      DigitValue(text[(CHOOSE k \in 1..Len(text) : text[k] = ",") + 1])>>

\* L1, R1 = set1[1:-1].split(sep); int(L1), int(R1)
limits_of_text(text) ==
    <<ParseNat(SubSeq(text, 2, (CHOOSE k \in 1..Len(text) : text[k] = ",") - 1)),
      ParseNat(SubSeq(text, (CHOOSE k \in 1..Len(text) : text[k] = ",") + 1,
                      Len(text) - 1))>>

\* get_intersection_type of the harness after the texts are read
reference_type(L1, R1, L2, R2, L1_closed, R1_closed, L2_closed, R2_closed) ==
    IF R1 < L2 \/ R2 < L1 THEN "EMPTY"
    ELSE IF R1 = L2 \/ R2 = L1
         THEN IF (R1 = L2 /\ R1_closed /\ L2_closed) \/ (R2 = L1 /\ R2_closed /\ L1_closed)
              THEN "ONE_NUMBER" ELSE "EMPTY"
    ELSE IF L1 = R1 \/ L2 = R2 THEN "ONE_NUMBER"
    ELSE IF (L1 < L2 /\ R1 > R2) \/ (L2 < L1 /\ R2 > R1) THEN "INNER_OVERLAP"
    ELSE IF (L2 < R1 /\ R1 < R2 /\ L1 < L2 /\ L2 < R1)
                \/ (L1 < R2 /\ R2 < R1 /\ L2 < L1 /\ L1 < R2)
         THEN "PARTIAL_OVERLAP"
    ELSE IF (L1 = L2 /\ R1 < R2) \/ (L2 = L1 /\ R2 < R1)
         THEN IF L1_closed /\ L2_closed THEN "INNER_LEFT_OVERLAP"
              ELSE "INNER_LEFT_OVERLAP_WITHOUT_LOWER"
    ELSE IF L1 = L2 /\ R1 = R2
         THEN IF L1_closed /\ L2_closed
              THEN IF R1_closed /\ R2_closed THEN "EQUALITY" ELSE "EQUALITY_WITHOUT_UPPER"
              ELSE IF R1_closed /\ R2_closed THEN "EQUALITY_WITHOUT_LOWER"
              ELSE "EQUALITY_WITHOUT_LIMITS"
    ELSE IF (L1 < L2 /\ R1 = R2) \/ (L2 < L1 /\ R2 = R1)
         THEN IF R1_closed /\ R2_closed THEN "INNER_RIGHT_OVERLAP"
              ELSE "INNER_RIGHT_OVERLAP_WITHOUT_UPPER"
    ELSE "UNKNOWN_INTERSECTION"

\* get_intersection_type(set1, set2) of the harness
get_intersection_type(set1, set2) ==
    reference_type(limits_of_text(set1)[1], limits_of_text(set1)[2],
                   limits_of_text(set2)[1], limits_of_text(set2)[2],
                   Head(set1) = "[", set1[Len(set1)] = "]",
                   Head(set2) = "[", set2[Len(set2)] = "]")

\* the IntervalAlgSet of the numbers and brackets of a generated interval
IntervalOfGenerated(generated) ==
    IntervalAlgSet(generated.lower_limit, generated.upper_limit,
                   generated.is_left_closed, generated.is_right_closed)

\* the harness generates two intervals
GenerateIntervals ==
    /\ kpc = "idle"
    /\ \E interval1 \in generate_interval(GeneratedMini, GeneratedMaxi),
          interval2 \in generate_interval(GeneratedMini, GeneratedMaxi) :
        /\ ktexts' = <<interval1.text, interval2.text>>
        /\ kargs' = <<IntervalOfGenerated(interval1), IntervalOfGenerated(interval2)>>
    /\ kpc' = "given"
    /\ UNCHANGED <<ktype, kswapped, kreference>>
    /\ UNCHANGED otherThanClassify

\* the intervals a caller can construct, with those that have no lower or no
\* upper limit
GivenIntervals ==
    Intervals
        \cup {iv \in {IntervalAlgSet(l, Inf, lc, rc) : l \in Limits \cup {-Inf},
                                                     lc \in BOOLEAN, rc \in BOOLEAN} :
                    IsInterval(iv)}
        \cup {iv \in {IntervalAlgSet(-Inf, u, lc, rc) : u \in Limits \cup {Inf},
                                                      lc \in BOOLEAN, rc \in BOOLEAN} :
                    IsInterval(iv)}

\* a caller takes two intervals it has constructed
TakeIntervals ==
    /\ kpc = "idle"
    /\ \E interval1 \in GivenIntervals, interval2 \in GivenIntervals :
        kargs' = <<interval1, interval2>>
    /\ ktexts' = <<>>
    /\ kpc' = "given"
    /\ UNCHANGED <<ktype, kswapped, kreference>>
    /\ UNCHANGED otherThanClassify

\* AlgSet._intersection_type(interval1, interval2), the same for the swapped
\* intervals, and get_intersection_type for generated texts
Classify ==
    /\ kpc = "given"
    /\ ktype' = intersection_type(kargs[1], kargs[2])
    /\ kswapped' = intersection_type(kargs[2], kargs[1])
    /\ kreference' = IF ktexts = <<>> THEN NoneValue
                     ELSE get_intersection_type(ktexts[1], ktexts[2])
    /\ kpc' = "classified"
    /\ UNCHANGED <<ktexts, kargs>>
    /\ UNCHANGED otherThanClassify

\* the caller is done with the intervals
ClassifyDiscard ==
    /\ kpc = "classified"
    /\ kpc' = "idle"
    /\ ktexts' = <<>>
    /\ kargs' = <<>>
    /\ ktype' = NoneValue
    /\ kswapped' = NoneValue
    /\ kreference' = NoneValue
    /\ UNCHANGED otherThanClassify

ClassifyNext == GenerateIntervals \/ TakeIntervals \/ Classify \/ ClassifyDiscard

SpecClassify == Init /\ [][ClassifyNext]_vars

\* the invariant of an interval: the lower limit is not above the upper one,
\* and equal limits are both closed
IsValidInterval(interval) ==
    /\ IsInterval(interval)
    /\ interval.lower_limit <= interval.upper_limit
    /\ interval.lower_limit = interval.upper_limit =>
            interval.is_left_closed /\ interval.is_right_closed

\* C22: two intervals that satisfy the invariant of an interval are
\* classified as one of the twelve named Intersections, never as
\* UNKNOWN_INTERSECTION, and as the same one when the intervals are swapped.
C22_ClassificationIsTotalAndSymmetric ==
    kpc = "classified" /\ IsValidInterval(kargs[1]) /\ IsValidInterval(kargs[2]) =>
        /\ ktype \in Intersections \ {"UNKNOWN_INTERSECTION"}
        /\ kswapped = ktype

\* the second of two different intervals starts first and they overlap in part
C22_Witness ==
    /\ kpc = "classified"
    /\ IsValidInterval(kargs[1]) /\ IsValidInterval(kargs[2])
    /\ kargs[2].lower_limit < kargs[1].lower_limit
    /\ kargs[1].lower_limit < kargs[2].upper_limit
    /\ kargs[2].upper_limit < kargs[1].upper_limit
    /\ ktype = "PARTIAL_OVERLAP" /\ kswapped = "PARTIAL_OVERLAP"

\* C23: for two intervals generated by generate_interval,
\* AlgSet._intersection_type of the intervals and get_intersection_type of
\* their texts are the same Intersections.
C23_ClassifierAgreesWithTheReference ==
    kpc = "classified" /\ ktexts # <<>> => ktype = kreference

\* a limit of two digits was read and the intervals share it, one of them open
C23_Witness ==
    /\ kpc = "classified" /\ ktexts # <<>>
    /\ kargs[1].upper_limit = GeneratedMaxi /\ kargs[2].upper_limit = GeneratedMaxi
    /\ kargs[1].lower_limit < kargs[2].lower_limit
    /\ kargs[2].lower_limit < GeneratedMaxi
    /\ ~kargs[1].is_right_closed /\ kargs[2].is_right_closed
    /\ ktype = "INNER_RIGHT_OVERLAP_WITHOUT_UPPER"
    /\ kreference = "INNER_RIGHT_OVERLAP_WITHOUT_UPPER"

-----------------------------------------------------------------------------
(* The discrete set as a state machine: a caller constructs a              *)
(* DiscreteAlgSet, adds numbers to it and removes numbers from it, unites  *)
(* and intersects it with other discrete sets and keeps the result, and    *)
(* compares it with other discrete sets.                                   *)

\* DiscreteAlgSet.__first_index_of_number: 0 stands for -1
RECURSIVE FirstIndexFrom(_, _, _)
FirstIndexFrom(content, wanted_number, i) ==
    IF i > Len(content) THEN 0
    ELSE IF content[i] = wanted_number THEN i
    ELSE FirstIndexFrom(content, wanted_number, i + 1)

first_index_of_number(discrete, wanted_number) ==
    FirstIndexFrom(discrete.content, wanted_number, 1)

\* DiscreteAlgSet.remove
discrete_remove(discrete, number) ==
    IF first_index_of_number(discrete, number) = 0 THEN Err("ValueError")
    ELSE [discrete EXCEPT !.content = RemoveAt(@, first_index_of_number(discrete, number))]

\* the while loop of DiscreteAlgSet.__eq__ over the values of the two sets
RECURSIVE SameValues(_, _)
SameValues(self_exp_values, other_exp_values) ==
    IF self_exp_values = <<>> THEN TRUE
    ELSE IF ~SeqContains(other_exp_values, Head(self_exp_values)) THEN FALSE
    ELSE SameValues(Tail(self_exp_values),
            RemoveAt(other_exp_values,
                     FirstIndexFrom(other_exp_values, Head(self_exp_values), 1)))

\* DiscreteAlgSet.__eq__
discrete_eq(discrete, other) ==
    /\ other.kind = discrete.kind
    /\ Len(discrete.content) = Len(other.content)
    /\ SameValues(discrete.content, other.content)

\* the argument lists given to DiscreteAlgSet for the set the caller keeps
\* and for the sets it is united, intersected and compared with
DiscreteLists == UNION {[1..n -> Limits] : n \in 0..(MaxDiscrete + 1)}

\* DiscreteAlgSet(*numbers)
DiscreteConstruct ==
    /\ dop = "init"
    /\ \E numbers \in DiscreteLists :
        /\ darg' = numbers
        /\ dset' = DiscreteAlgSet(numbers)
        /\ dres' = DiscreteAlgSet(numbers)
    /\ dop' = "DiscreteAlgSet"
    /\ dsteps' = 0
    /\ UNCHANGED otherThanDiscrete

\* discrete.add(number)
DiscreteAdd ==
    /\ dop # "init"
    /\ dsteps < MaxDiscreteSteps
    /\ \E number \in Limits :
        /\ darg' = number
        /\ dset' = discrete_add(dset, number)
    /\ dres' = NoneValue
    /\ dop' = "add"
    /\ dsteps' = dsteps + 1
    /\ UNCHANGED otherThanDiscrete

\* discrete.remove(number): the number is removed, or the call raises and
\* the set is left as it is
DiscreteRemove ==
    /\ dop # "init"
    /\ dsteps < MaxDiscreteSteps
    /\ \E number \in Limits :
        /\ darg' = number
        /\ dset' = IF IsErr(discrete_remove(dset, number)) THEN dset
                   ELSE discrete_remove(dset, number)
        /\ dres' = IF IsErr(discrete_remove(dset, number))
                   THEN discrete_remove(dset, number) ELSE NoneValue
    /\ dop' = "remove"
    /\ dsteps' = dsteps + 1
    /\ UNCHANGED otherThanDiscrete

\* discrete = AlgSet.union(discrete, DiscreteAlgSet(*numbers))
DiscreteUnion ==
    /\ dop # "init"
    /\ dsteps < MaxDiscreteSteps
    /\ \E numbers \in DiscreteLists :
        /\ darg' = DiscreteAlgSet(numbers)
        /\ dres' = union(<<dset, DiscreteAlgSet(numbers)>>)
        /\ dset' = union(<<dset, DiscreteAlgSet(numbers)>>)
    /\ dop' = "union"
    /\ dsteps' = dsteps + 1
    /\ UNCHANGED otherThanDiscrete

\* discrete = AlgSet.intersect(discrete, DiscreteAlgSet(*numbers))
DiscreteIntersection ==
    /\ dop # "init"
    /\ dsteps < MaxDiscreteSteps
    /\ \E numbers \in DiscreteLists :
        /\ darg' = DiscreteAlgSet(numbers)
        /\ dres' = intersect(<<dset, DiscreteAlgSet(numbers)>>)
        /\ dset' = intersect(<<dset, DiscreteAlgSet(numbers)>>)
    /\ dop' = "intersect"
    /\ dsteps' = dsteps + 1
    /\ UNCHANGED otherThanDiscrete

\* discrete == DiscreteAlgSet(*numbers)
DiscreteCompare ==
    /\ dop # "init"
    /\ dsteps < MaxDiscreteSteps
    /\ \E numbers \in DiscreteLists :
        /\ darg' = DiscreteAlgSet(numbers)
        /\ dres' = Bool(discrete_eq(dset, DiscreteAlgSet(numbers)))
    /\ dset' = dset
    /\ dop' = "__eq__"
    /\ dsteps' = dsteps + 1
    /\ UNCHANGED otherThanDiscrete

\* the caller drops the set
DiscreteDrop ==
    /\ dop # "init"
    /\ dop' = "init"
    /\ darg' = <<>>
    /\ dset' = NoneValue
    /\ dres' = NoneValue
    /\ dsteps' = 0
    /\ UNCHANGED otherThanDiscrete

DiscreteNext ==
    \/ DiscreteConstruct
    \/ DiscreteAdd
    \/ DiscreteRemove
    \/ DiscreteUnion
    \/ DiscreteIntersection
    \/ DiscreteCompare
    \/ DiscreteDrop

SpecDiscrete == Init /\ [][DiscreteNext]_vars

\* no two numbers of a discrete set are equal
NoTwoEqual(discrete) ==
    \A i, j \in 1..Len(discrete.content) : i # j => discrete.content[i] # discrete.content[j]

\* C30: a DiscreteAlgSet never holds two equal numbers: after its
\* construction from any argument list and after every add, remove, union
\* and intersection of a sequence, its numbers are different from each
\* other; and two discrete sets are equal exactly when they hold the same
\* numbers, in whatever order: DiscreteAlgSet(1, 2, 3) equals
\* DiscreteAlgSet(3, 1, 2).
C30_DiscreteSetHoldsNoNumberTwice ==
    /\ dop # "init" => IsDiscrete(dset) /\ NoTwoEqual(dset)
    /\ dop \in {"union", "intersect"} => NoTwoEqual(darg) /\ dres = dset
    /\ dop = "__eq__" =>
        (dres.value <=> SeqRange(dset.content) = SeqRange(darg.content))
    /\ dop = "__eq__" /\ dset.content = <<1, 2, 3>> /\ darg.content = <<3, 1, 2>> => dres.value

\* a set that was constructed from a list with a number twice, and has had a
\* number added, is compared with a set of the same numbers in another order
C30_Witness ==
    /\ dop = "__eq__"
    /\ dsteps = 2
    /\ dset.content = <<1, 2, 3>>
    /\ darg.content = <<3, 1, 2>>
    /\ dres = Bool(TRUE)

====
